---------------------------- MODULE Spec2Model ----------------------------
(***************************************************************************)
(* Model of the sql-builder crate: the placeholder binders of src/bind.rs  *)
(* (bind, binds, bind_num, bind_nums, bind_names), the literal rendering   *)
(* of src/arg.rs and the statement builder of src/lib.rs.                  *)
(*                                                                         *)
(* A string is a sequence of one-character strings.  The scanning          *)
(* functions are modelled one loop iteration per step; the locals of the   *)
(* function are the variables.                                             *)
(***************************************************************************)
EXTENDS Integers, Sequences, FiniteSets, TLC

VARIABLES
    input,            \* self: the string a scanning binder is called on
    args,             \* args: &[&dyn SqlArg] of binds / bind_nums
    names,            \* names.names_map() of bind_names: key -> argument
    pos,              \* index of the next character `for ch in self.chars()` yields
    res,              \* let mut res = String::new()
    offset,           \* binds: let mut offset = 0
    num,              \* bind_nums: let mut num = 0usize
    wait_digit,       \* bind_nums: let mut wait_digit = false
    key,              \* bind_names: let mut key = String::new()
    wait_colon,       \* bind_names: let mut wait_colon = false
    pc,               \* "scan" in the loop, "done" returned, "panic" aborted
    overflow_checks,  \* the build: TRUE panics on usize overflow, FALSE wraps
    text,             \* the string a chain of bind / bind_num calls has produced
    calls,            \* the calls of the chain so far
    b,                \* the SqlBuilder
    hist,             \* the names of the builder methods called so far
    ncalls,           \* the number of mutator calls made on the builder
    out,              \* what a terminal render of the builder as it is returned
    renderer,         \* the name of the terminal render that returned out
    log,              \* the constructor call and the mutator calls on b, in order
    cloned,           \* the builder b.clone() returned, NotCloned before
    wh,               \* the Where of src/where-builder.rs
    whlog             \* the constructor call and the calls on wh, in order

binderVars == <<input, args, names, pos, res, offset, num, wait_digit, key,
                wait_colon, pc, overflow_checks>>
chainVars == <<text, calls>>
builderVars == <<b, hist, ncalls, out, renderer, log, cloned>>
whereVars == <<wh, whlog>>
vars == <<binderVars, chainVars, builderVars, whereVars>>

(***************************************************************************)
(* Bounds of the model.                                                    *)
(***************************************************************************)
MaxLen == 4        \* longest enumerated input string
MaxArgs == 2       \* longest enumerated argument list
MaxCalls == 3      \* most mutator calls made on a builder
MaxChain == 2      \* longest chain of bind / bind_num calls

Strings(A, n) == UNION {[1..k -> A] : k \in 0..n}

RECURSIVE Concat(_)
\* the concatenation of a sequence of strings
Concat(ss) == IF ss = <<>> THEN <<>> ELSE Head(ss) \o Concat(Tail(ss))

(***************************************************************************)
(* src/arg.rs: SqlArg, and quote / esc of src/lib.rs.                      *)
(***************************************************************************)
IntArg(n) == [kind |-> "int", int |-> n, str |-> <<>>, flag |-> FALSE]
StrArg(s) == [kind |-> "str", int |-> 0, str |-> s, flag |-> FALSE]
BoolArg(f) == [kind |-> "bool", int |-> 0, str |-> <<>>, flag |-> f]
NoneArg == [kind |-> "none", int |-> 0, str |-> <<>>, flag |-> FALSE]

Digits == <<"0", "1", "2", "3", "4", "5", "6", "7", "8", "9">>

RECURSIVE to_string(_)
\* i32::to_string: the decimal digits, a leading minus sign when negative
to_string(n) ==
    IF n < 0 THEN <<"-">> \o to_string(-n)
    ELSE IF n < 10 THEN <<Digits[n + 1]>>
    ELSE to_string(n \div 10) \o <<Digits[(n % 10) + 1]>>

RECURSIVE esc(_)
\* src.replace("'", "''")
esc(s) ==
    IF s = <<>> THEN <<>>
    ELSE (IF Head(s) = "'" THEN <<"'", "'">> ELSE <<Head(s)>>) \o esc(Tail(s))

quote(s) == <<"'">> \o esc(s) \o <<"'">>

sql_arg(v) ==
    CASE v.kind = "int" -> to_string(v.int)
      [] v.kind = "str" -> quote(v.str)
      [] v.kind = "bool" -> IF v.flag THEN <<"T", "R", "U", "E">>
                                      ELSE <<"F", "A", "L", "S", "E">>
      [] v.kind = "none" -> <<"N", "U", "L", "L">>

ArgLists(A, n) == UNION {[1..k -> A] : k \in 0..n}

(***************************************************************************)
(* Values the variables of an operation that is not running hold.          *)
(***************************************************************************)
NoNames == [k \in {} |-> NoneArg]

ScannerStart ==
    /\ pos = 1
    /\ res = <<>>
    /\ offset = 0
    /\ num = 0
    /\ wait_digit = FALSE
    /\ key = <<>>
    /\ wait_colon = FALSE
    /\ pc = "scan"

ChainIdle == text = <<>> /\ calls = <<>>
WhereIdle == wh = <<>> /\ whlog = <<>>

BuilderIdle ==
    /\ b = <<>>
    /\ hist = {}
    /\ ncalls = 0
    /\ out = <<>>
    /\ renderer = "none"
    /\ log = <<>>
    /\ cloned = <<>>

(***************************************************************************)
(* binds (src/bind.rs 385-398): cyclic binding of `?`.                     *)
(***************************************************************************)
BindsAlphabet == {"?", "f", "'"}
BindsArgs == {IntArg(10), StrArg(<<"?">>), BoolArg(TRUE)}

\* offset = (offset + 1) % len, with the offset unchanged
binds_offset_stuck(off, len) == off

\* offset = (offset + 1) % len
binds_offset(off, len) == (off + 1) % len

InitBinds ==
    /\ input \in Strings(BindsAlphabet, MaxLen)
    /\ args \in ArgLists(BindsArgs, MaxArgs)
    /\ names = NoNames
    /\ overflow_checks = FALSE
    /\ ScannerStart
    /\ ChainIdle
    /\ BuilderIdle
    /\ WhereIdle

\* ch == '?' with a value to take: res.push_str(&args[offset].sql_arg())
BindsPlaceholder ==
    /\ pc = "scan" /\ pos <= Len(input)
    /\ input[pos] = "?"
    /\ offset < Len(args)
    /\ res' = res \o sql_arg(args[offset + 1])
    /\ offset' = binds_offset(offset, Len(args))
    /\ pos' = pos + 1
    /\ UNCHANGED <<input, args, names, num, wait_digit, key, wait_colon, pc,
                   overflow_checks, chainVars, builderVars, whereVars>>

\* ch == '?' with an empty slice: args[0] is out of bounds, the call panics
BindsNoArgs ==
    /\ pc = "scan" /\ pos <= Len(input)
    /\ input[pos] = "?"
    /\ offset >= Len(args)
    /\ pc' = "panic"
    /\ UNCHANGED <<input, args, names, pos, res, offset, num, wait_digit, key,
                   wait_colon, overflow_checks, chainVars, builderVars, whereVars>>

\* any other character: res.push(ch)
BindsChar ==
    /\ pc = "scan" /\ pos <= Len(input)
    /\ input[pos] # "?"
    /\ res' = Append(res, input[pos])
    /\ pos' = pos + 1
    /\ UNCHANGED <<input, args, names, offset, num, wait_digit, key, wait_colon,
                   pc, overflow_checks, chainVars, builderVars, whereVars>>

\* the loop is over: res is returned
BindsReturn ==
    /\ pc = "scan" /\ pos > Len(input)
    /\ pc' = "done"
    /\ UNCHANGED <<input, args, names, pos, res, offset, num, wait_digit, key,
                   wait_colon, overflow_checks, chainVars, builderVars, whereVars>>

NextBinds == BindsPlaceholder \/ BindsNoArgs \/ BindsChar \/ BindsReturn

SpecBinds == InitBinds /\ [][NextBinds]_vars

\* the number of `?` among the first i characters of s
MarkersBefore(s, i) == Cardinality({j \in 1..i : s[j] = "?"})

\* what the i-th character of the input stands for in the output of binds
BindsPiece(i) ==
    IF input[i] = "?"
    THEN sql_arg(args[(MarkersBefore(input, i - 1) % Len(args)) + 1])
    ELSE <<input[i]>>

\* C1: with a value list of length n >= 1, the output of binds is the input
\* with the i-th `?` (0-indexed) replaced by the rendered values[i mod n] and
\* every other character kept in place; the rendered text of a value is
\* never scanned, so a `?` inside it stays; the call returns.
C1_BindsCyclic ==
    Len(args) >= 1 =>
        /\ pc # "panic"
        /\ res = Concat([i \in 1..(pos - 1) |-> BindsPiece(i)])
        /\ pc = "done" => pos = Len(input) + 1

\* a returned call that wrapped around the value list and spliced in a value
\* whose rendered text holds a `?`
C1_Witness ==
    /\ pc = "done"
    /\ Len(args) = 2
    /\ MarkersBefore(input, Len(input)) = 3
    /\ args[1] = StrArg(<<"?">>)

(***************************************************************************)
(* bind_nums (src/bind.rs 479-523): `$N` placeholders, `$$` escape.        *)
(*                                                                         *)
(* num is a usize.  The enumerated inputs hold at most MaxLen + 1 digits   *)
(* and the test vector has one-digit and two-digit numbers, so             *)
(* num * 10 + digit stays far below usize::MAX; `num - 1` with num = 0 is  *)
(* the one overflow these inputs reach.  With overflow checks (the debug   *)
(* profile) it panics; without (the release profile) it wraps to           *)
(* usize::MAX, which no slice length exceeds.                              *)
(***************************************************************************)
NumsAlphabet == {"$", "0", "1", "2", "a"}

\* the argument list of test_binds: &[&10, &"AAA", &true]
TestArgs == <<IntArg(10), StrArg(<<"A", "A", "A">>), BoolArg(TRUE)>>

\* "$1f$02o$$o$3$4" of test_binds
TestNumsInput ==
    <<"$", "1", "f", "$", "0", "2", "o", "$", "$", "o", "$", "3", "$", "4">>

\* the argument lists tried: the first k arguments of a list of distinct values
NumsArgLists == {SubSeq(TestArgs, 1, k) : k \in 0..MaxArgs} \cup {TestArgs}

IsDigit(ch) == \E d \in 1..10 : Digits[d] = ch

\* ch.to_digit(10)
to_digit(ch) == (CHOOSE d \in 1..10 : Digits[d] = ch) - 1

\* `let idx = num - 1; if len > idx { res.push_str(&args[idx].sql_arg()) }`
\* for num > 0, and for num = 0 once the subtraction has wrapped
nums_emit(n) ==
    IF n = 0 THEN <<>>
    ELSE IF Len(args) > n - 1 THEN sql_arg(args[n]) ELSE <<>>

InitNums ==
    /\ \/ /\ input \in Strings(NumsAlphabet, MaxLen)
          /\ args \in NumsArgLists
       \/ /\ input = TestNumsInput
          /\ args = TestArgs
    /\ names = NoNames
    /\ overflow_checks \in BOOLEAN
    /\ ScannerStart
    /\ ChainIdle
    /\ BuilderIdle
    /\ WhereIdle

NumsScanning == pc = "scan" /\ pos <= Len(input)

\* ch == '$', not waiting: wait_digit = true
NumsOpen ==
    /\ NumsScanning
    /\ input[pos] = "$" /\ ~wait_digit
    /\ wait_digit' = TRUE
    /\ pos' = pos + 1
    /\ UNCHANGED <<input, args, names, res, offset, num, key, wait_colon, pc,
                   overflow_checks, chainVars, builderVars, whereVars>>

\* ch == '$', waiting, num > 0: the placeholder ends and the next one starts
\* with wait_digit left set
NumsNext ==
    /\ NumsScanning
    /\ input[pos] = "$" /\ wait_digit /\ num > 0
    /\ res' = res \o nums_emit(num)
    /\ num' = 0
    /\ pos' = pos + 1
    /\ UNCHANGED <<input, args, names, offset, wait_digit, key, wait_colon, pc,
                   overflow_checks, chainVars, builderVars, whereVars>>

\* ch == '$', waiting, num == 0, with wait_digit left set
NumsEscapeStillWaiting ==
    /\ NumsScanning
    /\ input[pos] = "$" /\ wait_digit /\ num = 0
    /\ res' = Append(res, input[pos])
    /\ pos' = pos + 1
    /\ UNCHANGED <<input, args, names, offset, num, wait_digit, key, wait_colon,
                   pc, overflow_checks, chainVars, builderVars, whereVars>>

\* ch == '$', waiting, num == 0: wait_digit = false; res.push(ch)
NumsEscape ==
    /\ NumsScanning
    /\ input[pos] = "$" /\ wait_digit /\ num = 0
    /\ wait_digit' = FALSE
    /\ res' = Append(res, input[pos])
    /\ pos' = pos + 1
    /\ UNCHANGED <<input, args, names, offset, num, key, wait_colon, pc,
                   overflow_checks, chainVars, builderVars, whereVars>>

\* a digit while waiting: num = num * 10 + digit
NumsDigit ==
    /\ NumsScanning
    /\ input[pos] # "$" /\ wait_digit /\ IsDigit(input[pos])
    /\ num' = num * 10 + to_digit(input[pos])
    /\ pos' = pos + 1
    /\ UNCHANGED <<input, args, names, res, offset, wait_digit, key, wait_colon,
                   pc, overflow_checks, chainVars, builderVars, whereVars>>

\* any other character while waiting: `let idx = num - 1` is computed first.
\* With num > 0, or with num = 0 in a build that wraps, the value is pushed
\* when len > idx, then ch; wait_digit = false; num = 0
NumsClose ==
    /\ NumsScanning
    /\ input[pos] # "$" /\ wait_digit /\ ~IsDigit(input[pos])
    /\ num > 0 \/ ~overflow_checks
    /\ res' = Append(res \o nums_emit(num), input[pos])
    /\ wait_digit' = FALSE
    /\ num' = 0
    /\ pos' = pos + 1
    /\ UNCHANGED <<input, args, names, offset, key, wait_colon, pc,
                   overflow_checks, chainVars, builderVars, whereVars>>

\* any other character while waiting, num == 0, overflow checks on:
\* `num - 1` panics with "attempt to subtract with overflow"
NumsCloseUnderflow ==
    /\ NumsScanning
    /\ input[pos] # "$" /\ wait_digit /\ ~IsDigit(input[pos])
    /\ num = 0 /\ overflow_checks
    /\ pc' = "panic"
    /\ UNCHANGED <<input, args, names, pos, res, offset, num, wait_digit, key,
                   wait_colon, overflow_checks, chainVars, builderVars, whereVars>>

\* any other character while not waiting: res.push(ch)
NumsChar ==
    /\ NumsScanning
    /\ input[pos] # "$" /\ ~wait_digit
    /\ res' = Append(res, input[pos])
    /\ pos' = pos + 1
    /\ UNCHANGED <<input, args, names, offset, num, wait_digit, key, wait_colon,
                   pc, overflow_checks, chainVars, builderVars, whereVars>>

\* after the loop: `if wait_digit && num > 0` the last value is pushed
NumsReturn ==
    /\ pc = "scan" /\ pos > Len(input)
    /\ res' = IF wait_digit /\ num > 0 THEN res \o nums_emit(num) ELSE res
    /\ pc' = "done"
    /\ UNCHANGED <<input, args, names, pos, offset, num, wait_digit, key,
                   wait_colon, overflow_checks, chainVars, builderVars, whereVars>>

NextNums ==
    \/ NumsOpen
    \/ NumsNext
    \/ NumsEscape
    \/ NumsDigit
    \/ NumsClose
    \/ NumsCloseUnderflow
    \/ NumsChar
    \/ NumsReturn

SpecNums == InitNums /\ [][NextNums]_vars

\* the number of digits at the front of s
RECURSIVE LeadingDigits(_)
LeadingDigits(s) ==
    IF s # <<>> /\ IsDigit(Head(s)) THEN 1 + LeadingDigits(Tail(s)) ELSE 0

\* the decimal number a string of digits spells (0 for the empty string)
RECURSIVE Decimal(_)
Decimal(ds) ==
    IF ds = <<>> THEN 0
    ELSE Decimal(SubSeq(ds, 1, Len(ds) - 1)) * 10 + to_digit(ds[Len(ds)])

\* the text a placeholder of number n stands for
NumsValue(n) == IF n >= 1 /\ n <= Len(args) THEN sql_arg(args[n]) ELSE <<>>

\* The output the placeholder grammar gives a string: `$N` with N >= 1 is the
\* value (or nothing), and what ends it is read again unless it is a plain
\* character; `$$` is a `$`; a `$` with no number before a plain character or
\* before the end is dropped.
RECURSIVE NumsExpected(_)
NumsExpected(s) ==
    IF s = <<>> THEN <<>>
    ELSE IF Head(s) # "$" THEN <<Head(s)>> \o NumsExpected(Tail(s))
    ELSE LET d == LeadingDigits(Tail(s))
             n == Decimal(SubSeq(s, 2, d + 1))
             rest == SubSeq(s, d + 2, Len(s))
         IN  IF rest = <<>> THEN NumsValue(n)
             ELSE IF Head(rest) # "$"
                  THEN NumsValue(n) \o <<Head(rest)>> \o NumsExpected(Tail(rest))
             ELSE IF n >= 1 THEN NumsValue(n) \o NumsExpected(rest)
             ELSE <<"$">> \o NumsExpected(Tail(rest))

\* the digits that end just before position p of the input
DigitsBefore(p) ==
    LET first == CHOOSE i \in 1..p :
                     /\ \A j \in i..(p - 1) : IsDigit(input[j])
                     /\ i = 1 \/ ~IsDigit(input[i - 1])
    IN  SubSeq(input, first, p - 1)

\* C2: for every input and every value list the call returns, and returns the
\* input with each `$N` (N >= 1) replaced by the rendered values[N-1], or by
\* nothing when N > len(values); "$1f$02o$$o$3$4" with [10, "AAA", true]
\* gives "10f'AAA'o$oTRUE".
C2_BindNums ==
    /\ pc # "panic"
    /\ pc = "done" => res = NumsExpected(input)
    /\ (pc = "done" /\ input = TestNumsInput /\ args = TestArgs) =>
           res = <<"1", "0", "f", "'", "A", "A", "A", "'", "o", "$", "o",
                   "T", "R", "U", "E">>

\* C2, for the calls that return: the result is the one the grammar gives
C2_WhenReturned ==
    /\ pc = "done" => res = NumsExpected(input)
    /\ (pc = "done" /\ input = TestNumsInput /\ args = TestArgs) =>
           res = <<"1", "0", "f", "'", "A", "A", "A", "'", "o", "$", "o",
                   "T", "R", "U", "E">>

\* the scanner is at a plain character right after a `$` it is waiting on
AtPlainAfterDollar ==
    /\ NumsScanning
    /\ wait_digit
    /\ pos > 1 /\ input[pos - 1] = "$"
    /\ input[pos] # "$" /\ ~IsDigit(input[pos])

\* C3: a `$` directly followed by a character c that is neither a digit nor
\* `$`: the step completes, emits c and nothing else, and leaves the scanner
\* in the Normal state.
C3_PlainAfterDollar ==
    [][AtPlainAfterDollar =>
          /\ pc' = "scan"
          /\ res' = Append(res, input[pos])
          /\ wait_digit' = FALSE
          /\ pos' = pos + 1]_vars

\* the scanner is at a `$` while waiting, right after a `$`
AtDollarAfterDollar ==
    /\ NumsScanning
    /\ wait_digit
    /\ input[pos] = "$"
    /\ pos > 1 /\ input[pos - 1] = "$"

\* the scanner is at a `$` while waiting, right after one or more digits
AtDollarAfterDigits ==
    /\ NumsScanning
    /\ wait_digit
    /\ input[pos] = "$"
    /\ pos > 1 /\ IsDigit(input[pos - 1])

EscapeStep == res' = Append(res, "$") /\ wait_digit' = FALSE /\ pos' = pos + 1

NextPlaceholderStep ==
    /\ res' = res \o NumsValue(Decimal(DigitsBefore(pos)))
    /\ wait_digit' = TRUE
    /\ num' = 0
    /\ pos' = pos + 1

NumsExamples ==
    (pc = "done" /\ Len(args) >= 2) =>
        /\ input = <<"$", "1", "$", "2">> =>
               res = sql_arg(args[1]) \o sql_arg(args[2])
        /\ input = <<"$", "1", "$", "$">> => res = sql_arg(args[1]) \o <<"$">>

\* C4 as stated: a `$` right after a `$` is the escape; a `$` right after one
\* or more digits ends the placeholder and starts the next one.
C4_Original ==
    /\ []NumsExamples
    /\ [][AtDollarAfterDollar => EscapeStep]_vars
    /\ [][AtDollarAfterDigits => NextPlaceholderStep]_vars

\* C4, amended: a `$` right after a `$` is the escape; a `$` right after
\* digits that spell a number >= 1 ends the placeholder and starts the next
\* one; a `$` right after digits that spell 0 is the escape too.
C4_Amended ==
    /\ []NumsExamples
    /\ [][AtDollarAfterDollar => EscapeStep]_vars
    /\ [][(AtDollarAfterDigits /\ Decimal(DigitsBefore(pos)) >= 1)
             => NextPlaceholderStep]_vars
    /\ [][(AtDollarAfterDigits /\ Decimal(DigitsBefore(pos)) = 0)
             => EscapeStep]_vars

\* "$1$2" and "$1$$" have been bound with both values in range, and a `$`
\* after the digits of 0 has been read as the escape
C4_Witness ==
    /\ pc = "done"
    /\ args = TestArgs
    /\ \/ input = <<"$", "1", "$", "2">>
       \/ input = <<"$", "1", "$", "$">>
       \/ input = <<"$", "0", "$", "1">> /\ res = <<"$", "1">>

(***************************************************************************)
(* bind_names (src/bind.rs 573-607): `:name:` placeholders, `::` escape.   *)
(***************************************************************************)
NamesAlphabet == {":", "a", "b"}

\* the name maps tried: empty, one key, and two keys of which one value
\* renders to text that holds a placeholder
NamesMaps ==
    { NoNames,
      (<<"a">> :> IntArg(10)),
      (<<"a">> :> StrArg(<<":", "a", ":">>)) @@ (<<"a", "b">> :> BoolArg(TRUE)) }

InitNames ==
    /\ input \in Strings(NamesAlphabet, MaxLen)
    /\ names \in NamesMaps
    /\ args = <<>>
    /\ overflow_checks = FALSE
    /\ ScannerStart
    /\ ChainIdle
    /\ BuilderIdle
    /\ WhereIdle

NamesScanning == pc = "scan" /\ pos <= Len(input)

\* ch == ':', not waiting: wait_colon = true
NamesOpen ==
    /\ NamesScanning
    /\ input[pos] = ":" /\ ~wait_colon
    /\ wait_colon' = TRUE
    /\ pos' = pos + 1
    /\ UNCHANGED <<input, args, names, res, offset, num, wait_digit, key, pc,
                   overflow_checks, chainVars, builderVars, whereVars>>

\* ch == ':', waiting, key.is_empty(): res.push(ch); wait_colon = false
NamesEscape ==
    /\ NamesScanning
    /\ input[pos] = ":" /\ wait_colon /\ key = <<>>
    /\ res' = Append(res, input[pos])
    /\ wait_colon' = FALSE
    /\ pos' = pos + 1
    /\ UNCHANGED <<input, args, names, offset, num, wait_digit, key, pc,
                   overflow_checks, chainVars, builderVars, whereVars>>

\* names.get(&*skey), with a missing key left in the text as it was written
names_get_keep_missing(k) ==
    IF k \in DOMAIN names THEN sql_arg(names[k]) ELSE <<":">> \o k \o <<":">>

\* names.get(&*skey): Some(value) => value.sql_arg(), None => "NULL"
names_get(k) ==
    IF k \in DOMAIN names THEN sql_arg(names[k]) ELSE <<"N", "U", "L", "L">>

\* ch == ':', waiting, key not empty: the value or NULL is pushed;
\* key = String::new(); wait_colon = false
NamesLookup ==
    /\ NamesScanning
    /\ input[pos] = ":" /\ wait_colon /\ key # <<>>
    /\ res' = res \o names_get(key)
    /\ key' = <<>>
    /\ wait_colon' = FALSE
    /\ pos' = pos + 1
    /\ UNCHANGED <<input, args, names, offset, num, wait_digit, pc,
                   overflow_checks, chainVars, builderVars, whereVars>>

\* any other character while waiting: key.push(ch)
NamesKeyChar ==
    /\ NamesScanning
    /\ input[pos] # ":" /\ wait_colon
    /\ key' = Append(key, input[pos])
    /\ pos' = pos + 1
    /\ UNCHANGED <<input, args, names, res, offset, num, wait_digit, wait_colon,
                   pc, overflow_checks, chainVars, builderVars, whereVars>>

\* any other character while not waiting: res.push(ch)
NamesChar ==
    /\ NamesScanning
    /\ input[pos] # ":" /\ ~wait_colon
    /\ res' = Append(res, input[pos])
    /\ pos' = pos + 1
    /\ UNCHANGED <<input, args, names, offset, num, wait_digit, key, wait_colon,
                   pc, overflow_checks, chainVars, builderVars, whereVars>>

\* what is pushed after the loop, with the open key put back behind its colon
names_tail_colon(waiting, k) == IF waiting THEN <<":">> \o k ELSE <<>>

\* after the loop: `if wait_colon { res.push(';'); res.push_str(&key) }`
names_tail(waiting, k) == IF waiting THEN <<";">> \o k ELSE <<>>

NamesReturn ==
    /\ pc = "scan" /\ pos > Len(input)
    /\ res' = res \o names_tail(wait_colon, key)
    /\ pc' = "done"
    /\ UNCHANGED <<input, args, names, pos, offset, num, wait_digit, key,
                   wait_colon, overflow_checks, chainVars, builderVars, whereVars>>

NextNames ==
    \/ NamesOpen
    \/ NamesEscape
    \/ NamesLookup
    \/ NamesKeyChar
    \/ NamesChar
    \/ NamesReturn

SpecNames == InitNames /\ [][NextNames]_vars

\* the number of `:` in s
Colons(s) == Cardinality({p \in 1..Len(s) : s[p] = ":"})

\* the position of the j-th `:` of s; 0 for j = 0, Len(s) + 1 past the last
ColonAt(s, j) ==
    IF j = 0 THEN 0
    ELSE IF j > Colons(s) THEN Len(s) + 1
    ELSE CHOOSE p \in 1..Len(s) :
             s[p] = ":" /\ Cardinality({q \in 1..p : s[q] = ":"}) = j

\* the text between the j-th `:` of s and the next one
Between(s, j) == SubSeq(s, ColonAt(s, j) + 1, ColonAt(s, j + 1) - 1)

\* what the text after the j-th `:` of the input stands for in the output:
\* outside a pair it is itself; inside a closed pair it is a key, or the `::`
\* escape; inside a pair the input leaves open it follows a `;`
NamesPiece(j) ==
    LET t == Between(input, j)
    IN  IF j % 2 = 0 THEN t
        ELSE IF j = Colons(input) THEN <<";">> \o t
        ELSE IF t = <<>> THEN <<":">>
        ELSE IF t \in DOMAIN names THEN sql_arg(names[t])
        ELSE <<"N", "U", "L", "L">>

\* C8: bind_names returns the input with each `:key:` (key not empty)
\* replaced by the rendered value of the key, or by NULL when the map has no
\* such key, each `::` replaced by `:`, and the text outside the pairs kept;
\* the characters of a closed key are not emitted.
C8_BindNames ==
    /\ pc # "panic"
    /\ pc = "done" =>
           res = Concat([j \in 1..(Colons(input) + 1) |-> NamesPiece(j - 1)])

\* a returned call that bound a key of the map, a key missing from it and an
\* escaped colon
C8_Witness ==
    /\ pc = "done"
    /\ names = (<<"a">> :> IntArg(10))
    /\ \/ input = <<":", "a", ":", ":", ":">> /\ res = <<"1", "0", ":">>
       \/ input = <<":", "b", ":", "a">> /\ res = <<"N", "U", "L", "L", "a">>

\* the text after the last `:` of s
AfterLastColon(s) == SubSeq(s, ColonAt(s, Colons(s)) + 1, Len(s))

IsSuffix(t, s) ==
    Len(t) <= Len(s) /\ SubSeq(s, Len(s) - Len(t) + 1, Len(s)) = t

\* C9: when the input ends inside an open key (an odd number of `:`), the
\* call returns and its output ends with `;` followed by the open key's text.
C9_OpenKey ==
    /\ pc # "panic"
    /\ (pc = "done" /\ Colons(input) % 2 = 1) =>
           IsSuffix(<<";">> \o AfterLastColon(input), res)

\* returned calls on an input with a lone trailing `:` and on one that ends
\* inside a key
C9_Witness ==
    /\ pc = "done"
    /\ \/ input = <<"a", ":">> /\ res = <<"a", ";">>
       \/ input = <<":", "a", ":", ":", "b">> /\ Len(res) >= 2

(***************************************************************************)
(* bind (src/bind.rs 364-366) and bind_num (src/bind.rs 438-441): chains   *)
(* of calls, each on the string the call before it returned.               *)
(***************************************************************************)
ScannerIdle ==
    /\ args = <<>>
    /\ names = NoNames
    /\ pos = 0
    /\ res = <<>>
    /\ offset = 0
    /\ num = 0
    /\ wait_digit = FALSE
    /\ key = <<>>
    /\ wait_colon = FALSE
    /\ pc = "idle"
    /\ overflow_checks = FALSE

IsPrefix(t, s) == Len(t) <= Len(s) /\ SubSeq(s, 1, Len(t)) = t

\* str::replace(pat, to): every match of pat, left to right, none overlapping
RECURSIVE replace(_, _, _)
replace(s, pat, to) ==
    IF s = <<>> THEN <<>>
    ELSE IF IsPrefix(pat, s)
         THEN to \o replace(SubSeq(s, Len(pat) + 1, Len(s)), pat, to)
    ELSE <<Head(s)>> \o replace(Tail(s), pat, to)

\* str::replacen(pat, to, 1): the first match of pat only
RECURSIVE replacen1(_, _, _)
replacen1(s, pat, to) ==
    IF s = <<>> THEN <<>>
    ELSE IF IsPrefix(pat, s) THEN to \o SubSeq(s, Len(pat) + 1, Len(s))
    ELSE <<Head(s)>> \o replacen1(Tail(s), pat, to)

\* self.replace('?', &arg.sql_arg()): every `?` replaced
bind_all(s, arg) == replace(s, <<"?">>, sql_arg(arg))

\* self.replacen('?', &arg.sql_arg(), 1)
bind(s, arg) == replacen1(s, <<"?">>, sql_arg(arg))

\* let rep = format!("${}", &num); self.replace(&rep, &arg.sql_arg())
bind_num(s, n, arg) == replace(s, <<"$">> \o to_string(n), sql_arg(arg))

BindCall(arg) == [fn |-> "bind", num |-> 0, arg |-> arg]
BindNumCall(n, arg) == [fn |-> "bind_num", num |-> n, arg |-> arg]

\* "?foo?" and "f?o?o" of test_bind
TestBindInputs == {<<"?", "f", "o", "o", "?">>, <<"f", "?", "o", "?", "o">>}

InitBind ==
    /\ input \in Strings(BindsAlphabet, MaxLen) \cup TestBindInputs
    /\ text = input
    /\ calls = <<>>
    /\ ScannerIdle
    /\ BuilderIdle
    /\ WhereIdle

\* text.bind(&arg)
CallBind ==
    /\ Len(calls) < MaxChain
    /\ \E arg \in BindsArgs :
           /\ text' = bind(text, arg)
           /\ calls' = Append(calls, BindCall(arg))
    /\ UNCHANGED <<binderVars, builderVars, whereVars>>

NextBind == CallBind

SpecBind == InitBind /\ [][NextBind]_vars

\* the positions of the `?` of s
Markers(s) == {p \in 1..Len(s) : s[p] = "?"}

Min(S) == CHOOSE x \in S : \A y \in S : x <= y

\* s with the character at position p replaced by the text t
Splice(s, p, t) == SubSeq(s, 1, p - 1) \o t \o SubSeq(s, p + 1, Len(s))

\* C5: bind replaces the first `?` of the string it is called on with the
\* rendered value and keeps every other character, every later `?`
\* included; a string without `?` is returned as it is.
C5_BindFirst ==
    [][calls' # calls =>
          LET arg == calls'[Len(calls')].arg
          IN  IF Markers(text) = {} THEN text' = text
              ELSE text' = Splice(text, Min(Markers(text)), sql_arg(arg))]_vars

\* one bind on a string with two markers: the second marker is still there
C5_Witness ==
    /\ Len(calls) = 1
    /\ input = <<"?", "f", "o", "o", "?">>
    /\ calls[1].arg = IntArg(10)
    /\ text = <<"1", "0", "f", "o", "o", "?">>

\* C6: on an input with two or more `?`, bind(a) then bind(b) gives the input
\* with its first `?` replaced by the rendered a and its second `?` by the
\* rendered b.
C6_BindChain ==
    (Len(calls) = 2 /\ Cardinality(Markers(input)) >= 2) =>
        LET p1 == Min(Markers(input))
            p2 == Min(Markers(input) \ {p1})
        IN  text = SubSeq(input, 1, p1 - 1) \o sql_arg(calls[1].arg)
                   \o SubSeq(input, p1 + 1, p2 - 1) \o sql_arg(calls[2].arg)
                   \o SubSeq(input, p2 + 1, Len(input))

(***************************************************************************)
(* bind_num chains.                                                        *)
(***************************************************************************)
NumAlphabet == {"$", "0", "1", "o"}
NumChoices == {1, 2, 10}
NumArgs == {IntArg(7), StrArg(<<"l">>)}

\* "$1f$2o$1o$3" of test_bind
TestBindNumInput == <<"$", "1", "f", "$", "2", "o", "$", "1", "o", "$", "3">>

InitBindNum ==
    /\ input \in Strings(NumAlphabet, MaxLen) \cup {TestBindNumInput}
    /\ text = input
    /\ calls = <<>>
    /\ ScannerIdle
    /\ BuilderIdle
    /\ WhereIdle

\* text.bind_num(n, &arg)
CallBindNum ==
    /\ Len(calls) < MaxChain
    /\ \E n \in NumChoices, arg \in NumArgs :
           /\ text' = bind_num(text, n, arg)
           /\ calls' = Append(calls, BindNumCall(n, arg))
    /\ UNCHANGED <<binderVars, builderVars, whereVars>>

NextBindNum == CallBindNum

SpecBindNum == InitBindNum /\ [][NextBindNum]_vars

\* C7: bind_num calls for two different numbers give the same string in
\* either order.
C7_BindNumCommutes ==
    (Len(calls) = 2 /\ calls[1].num # calls[2].num) =>
        text = bind_num(bind_num(input, calls[2].num, calls[2].arg),
                        calls[1].num, calls[1].arg)

\* C7 on the input of test_bind: "$1f$2o$1o$3" with 1 -> 7 and 2 -> 'l'
C7_TestVector ==
    (/\ Len(calls) = 2
     /\ input = TestBindNumInput
     /\ calls[1] = BindNumCall(1, IntArg(7))
     /\ calls[2] = BindNumCall(2, StrArg(<<"l">>))) =>
        text = <<"7", "f", "'", "l", "'", "o", "7", "o", "$", "3">>

(***************************************************************************)
(* SqlBuilder (src/lib.rs).  In the builder a string is a sequence of      *)
(* atoms: the texts the caller passes in and the literal pieces the        *)
(* builder puts between them.  The builder never looks inside a string; it *)
(* only asks whether one is empty.                                         *)
(***************************************************************************)
None == [some |-> FALSE, val |-> <<>>]
Some(x) == [some |-> TRUE, val |-> x]

ValuesEmpty == [tag |-> "Empty", list |-> <<>>, query |-> <<>>]
ValuesList(l) == [tag |-> "List", list |-> l, query |-> <<>>]
ValuesSelect(q) == [tag |-> "Select", list |-> <<>>, query |-> q]

\* SqlBuilder::default()
default ==
    [ statement |-> "SelectFrom",
      table |-> <<>>,
      join_natural |-> FALSE,
      join_operator |-> "Join",
      joins |-> <<>>,
      distinct |-> FALSE,
      fields |-> <<>>,
      sets |-> <<>>,
      values |-> ValuesEmpty,
      returning |-> None,
      group_by |-> <<>>,
      having |-> None,
      unions |-> <<>>,
      wheres |-> <<>>,
      order_by |-> <<>>,
      limit |-> None,
      offset |-> None ]

select_from(table) == [default EXCEPT !.table = table]
select_values(values) ==
    [default EXCEPT !.statement = "SelectValues", !.fields = values]
insert_into(table) ==
    [default EXCEPT !.statement = "InsertInto", !.table = table]
update_table(table) ==
    [default EXCEPT !.statement = "UpdateTable", !.table = table]
delete_from(table) ==
    [default EXCEPT !.statement = "DeleteFrom", !.table = table]

\* [String]::join(sep)
RECURSIVE join(_, _)
join(list, sep) ==
    IF list = <<>> THEN <<>>
    ELSE IF Len(list) = 1 THEN list[1]
    ELSE list[1] \o sep \o join(Tail(list), sep)

Ok(t) == [tag |-> "Ok", text |-> t, err |-> "none"]
Err(e) == [tag |-> "Err", text |-> <<>>, err |-> e]
NotRendered == [tag |-> "none", text |-> <<>>, err |-> "none"]

\* SqlBuilder::make_wheres, with no parentheses around the conditions
make_wheres_bare(wheres) ==
    IF Len(wheres) = 0 THEN <<>>
    ELSE <<" WHERE ">> \o join(wheres, <<" AND ">>)

\* SqlBuilder::make_wheres
make_wheres(wheres) ==
    IF Len(wheres) = 0 THEN <<>>
    ELSE IF Len(wheres) = 1 THEN <<" WHERE ">> \o wheres[1]
    ELSE <<" WHERE ">>
         \o join([i \in 1..Len(wheres) |-> <<"(">> \o wheres[i] \o <<")">>],
                 <<" AND ">>)

\* SqlBuilder::query, with the GROUP BY part put before the WHERE part
query_group_by_first(s) ==
    LET distinct == IF s.distinct THEN <<" DISTINCT">> ELSE <<>>
        fields == IF s.fields = <<>> THEN <<"*">> ELSE join(s.fields, <<", ">>)
        joins == IF s.joins = <<>> THEN <<>>
                 ELSE <<" ">> \o join(s.joins, <<" ">>)
        group_by ==
            IF s.group_by = <<>> THEN <<>>
            ELSE <<" GROUP BY ">> \o join(s.group_by, <<", ">>)
                 \o (IF s.having.some THEN <<" HAVING ">> \o s.having.val
                     ELSE <<>>)
        wheres == make_wheres(s.wheres)
        order_by ==
            IF s.order_by = <<>> \/ s.unions # <<>> THEN <<>>
            ELSE <<" ORDER BY ">> \o join(s.order_by, <<", ">>)
        limit == IF s.limit.some THEN <<" LIMIT ">> \o s.limit.val ELSE <<>>
        offset_part ==
            IF s.offset.some THEN <<" OFFSET ">> \o s.offset.val ELSE <<>>
    IN  Ok(<<"SELECT">> \o distinct \o <<" ">> \o fields \o <<" FROM ">>
           \o s.table \o joins \o group_by \o wheres \o s.unions \o order_by
           \o limit \o offset_part)

\* SqlBuilder::query
query(s) ==
    LET distinct == IF s.distinct THEN <<" DISTINCT">> ELSE <<>>
        fields == IF s.fields = <<>> THEN <<"*">> ELSE join(s.fields, <<", ">>)
        joins == IF s.joins = <<>> THEN <<>>
                 ELSE <<" ">> \o join(s.joins, <<" ">>)
        group_by ==
            IF s.group_by = <<>> THEN <<>>
            ELSE <<" GROUP BY ">> \o join(s.group_by, <<", ">>)
                 \o (IF s.having.some THEN <<" HAVING ">> \o s.having.val
                     ELSE <<>>)
        wheres == make_wheres(s.wheres)
        order_by ==
            IF s.order_by = <<>> \/ s.unions # <<>> THEN <<>>
            ELSE <<" ORDER BY ">> \o join(s.order_by, <<", ">>)
        limit == IF s.limit.some THEN <<" LIMIT ">> \o s.limit.val ELSE <<>>
        \* `offset` in the source; the name is taken by the local of binds
        offset_part ==
            IF s.offset.some THEN <<" OFFSET ">> \o s.offset.val ELSE <<>>
    IN  Ok(<<"SELECT">> \o distinct \o <<" ">> \o fields \o <<" FROM ">>
           \o s.table \o joins \o wheres \o group_by \o s.unions \o order_by
           \o limit \o offset_part)

\* SqlBuilder::query_values
query_values(s) == Ok(<<"SELECT ">> \o join(s.fields, <<", ">>))

\* SqlBuilder::sql_select
sql_select(s) ==
    IF s.table = <<>> THEN Err("NoTableName")
    ELSE LET q == query(s)
         IN  IF q.tag = "Err" THEN q ELSE Ok(q.text \o <<";">>)

\* SqlBuilder::sql_select_values
sql_select_values(s) ==
    IF s.fields = <<>> THEN Err("NoValues")
    ELSE LET q == query_values(s)
         IN  IF q.tag = "Err" THEN q ELSE Ok(q.text \o <<";">>)

\* SqlBuilder::sql_insert
sql_insert(s) ==
    IF s.table = <<>> THEN Err("NoTableName")
    ELSE LET fields == join(s.fields, <<", ">>)
         IN  CASE s.values.tag = "Empty" -> Err("NoValues")
               [] s.values.tag = "List" ->
                    IF s.values.list = <<>> THEN Err("NoValues")
                    ELSE Ok(<<"INSERT INTO ">> \o s.table \o <<" (">> \o fields
                            \o <<") VALUES ">> \o join(s.values.list, <<", ">>)
                            \o (IF s.returning.some
                                THEN <<" RETURNING ">> \o s.returning.val
                                ELSE <<>>)
                            \o <<";">>)
               [] s.values.tag = "Select" ->
                    Ok(<<"INSERT INTO ">> \o s.table \o <<" (">> \o fields
                       \o <<") ">> \o s.values.query \o <<";">>)

\* SqlBuilder::sql_update, with the check of the table left out
sql_update_unchecked_table(s) ==
    IF s.sets = <<>> THEN Err("NoSetFields")
    ELSE Ok(<<"UPDATE ">> \o s.table \o <<" SET ">> \o join(s.sets, <<", ">>)
            \o make_wheres(s.wheres)
            \o (IF s.returning.some THEN <<" RETURNING ">> \o s.returning.val
                ELSE <<>>)
            \o <<";">>)

\* SqlBuilder::sql_update
sql_update(s) ==
    IF s.table = <<>> THEN Err("NoTableName")
    ELSE IF s.sets = <<>> THEN Err("NoSetFields")
    ELSE Ok(<<"UPDATE ">> \o s.table \o <<" SET ">> \o join(s.sets, <<", ">>)
            \o make_wheres(s.wheres)
            \o (IF s.returning.some THEN <<" RETURNING ">> \o s.returning.val
                ELSE <<>>)
            \o <<";">>)

\* SqlBuilder::sql_delete
sql_delete(s) ==
    IF s.table = <<>> THEN Err("NoTableName")
    ELSE Ok(<<"DELETE FROM ">> \o s.table \o make_wheres(s.wheres) \o <<";">>)

\* SqlBuilder::sql
sql(s) ==
    CASE s.statement = "SelectFrom" -> sql_select(s)
      [] s.statement = "SelectValues" -> sql_select_values(s)
      [] s.statement = "UpdateTable" -> sql_update(s)
      [] s.statement = "InsertInto" -> sql_insert(s)
      [] s.statement = "DeleteFrom" -> sql_delete(s)

(***************************************************************************)
(* The mutators of SqlBuilder, as functions from the builder before the    *)
(* call to the builder after it.  Two of them are named after the type     *)
(* because the model uses their plain names already: `join` is             *)
(* [String]::join and `offset` is the local of binds.                      *)
(***************************************************************************)
\* SqlBuilder::and_table
and_table(s, table) == [s EXCEPT !.table = s.table \o <<", ">> \o table]

\* SqlBuilder::natural
natural(s) == [s EXCEPT !.join_natural = TRUE]

\* SqlBuilder::left
left(s) == [s EXCEPT !.join_operator = "LeftJoin"]

\* SqlBuilder::inner
inner(s) == [s EXCEPT !.join_operator = "InnerJoin"]

\* the keyword SqlBuilder::join starts its text with
JoinKeyword(join_operator, join_natural) ==
    CASE join_operator = "Join" /\ join_natural -> <<"NATURAL JOIN ">>
      [] join_operator = "Join" -> <<"JOIN ">>
      [] join_operator = "LeftJoin" /\ join_natural -> <<"NATURAL LEFT JOIN ">>
      [] join_operator = "LeftJoin" -> <<"LEFT JOIN ">>
      [] join_operator = "LeftOuterJoin" /\ join_natural ->
             <<"NATURAL LEFT OUTER JOIN ">>
      [] join_operator = "LeftOuterJoin" -> <<"LEFT OUTER JOIN ">>
      [] join_operator = "RightJoin" /\ join_natural ->
             <<"NATURAL RIGHT JOIN ">>
      [] join_operator = "RightJoin" -> <<"RIGHT JOIN ">>
      [] join_operator = "RightOuterJoin" /\ join_natural ->
             <<"NATURAL RIGHT OUTER JOIN ">>
      [] join_operator = "RightOuterJoin" -> <<"RIGHT OUTER JOIN ">>
      [] join_operator = "InnerJoin" /\ join_natural ->
             <<"NATURAL INNER JOIN ">>
      [] join_operator = "InnerJoin" -> <<"INNER JOIN ">>
      [] join_operator = "CrossJoin" /\ join_natural ->
             <<"NATURAL CROSS JOIN ">>
      [] join_operator = "CrossJoin" -> <<"CROSS JOIN ">>

\* SqlBuilder::join, leaving the natural flag as it is
SqlBuilder_join_keeping_natural(s, table) ==
    [s EXCEPT !.joins = Append(s.joins,
                               JoinKeyword(s.join_operator, s.join_natural)
                               \o table)]

\* SqlBuilder::join
SqlBuilder_join(s, table) ==
    LET join_text == JoinKeyword(s.join_operator, s.join_natural) \o table
    IN  [s EXCEPT !.join_natural = FALSE,
                  !.joins = Append(s.joins, join_text)]

\* SqlBuilder::on
on(s, constraint) ==
    IF s.joins = <<>> THEN s
    ELSE [s EXCEPT !.joins[Len(s.joins)] = @ \o <<" ON ">> \o constraint]

\* SqlBuilder::on_eq, adding the constraint to the first join
on_eq_to_first(s, c1, c2) ==
    IF s.joins = <<>> THEN s
    ELSE [s EXCEPT !.joins[1] = @ \o <<" ON ">> \o c1 \o <<" = ">> \o c2]

\* SqlBuilder::on_eq
on_eq(s, c1, c2) ==
    IF s.joins = <<>> THEN s
    ELSE [s EXCEPT !.joins[Len(s.joins)] =
                       @ \o <<" ON ">> \o c1 \o <<" = ">> \o c2]

\* SqlBuilder::distinct
distinct(s) == [s EXCEPT !.distinct = TRUE]

\* SqlBuilder::set_fields
set_fields(s, fields) == [s EXCEPT !.fields = fields]

\* SqlBuilder::field, with the field put in place of the accumulated ones
field_alone(s, f) == [s EXCEPT !.fields = <<f>>]

\* SqlBuilder::field
field(s, f) == [s EXCEPT !.fields = Append(s.fields, f)]

\* SqlBuilder::set
set(s, f, value) ==
    [s EXCEPT !.sets = Append(s.sets, f \o <<" = ">> \o value)]

\* SqlBuilder::values, adding no group for an empty slice
values_skipping_empty(s, vs) ==
    LET group == <<"(">> \o join(vs, <<", ">>) \o <<")">>
        added == IF vs = <<>> THEN <<>> ELSE <<group>>
    IN  IF s.values.tag = "List"
        THEN [s EXCEPT !.values = ValuesList(s.values.list \o added)]
        ELSE [s EXCEPT !.values = ValuesList(added)]

\* SqlBuilder::values, starting a new list on every call
values_restart(s, vs) ==
    [s EXCEPT !.values =
         ValuesList(<<(<<"(">> \o join(vs, <<", ">>) \o <<")">>)>>)]

\* SqlBuilder::values
values(s, vs) ==
    LET group == <<"(">> \o join(vs, <<", ">>) \o <<")">>
    IN  CASE s.values.tag = "Empty" ->
                 [s EXCEPT !.values = ValuesList(<<group>>)]
          [] s.values.tag = "Select" ->
                 [s EXCEPT !.values = ValuesList(<<group>>)]
          [] s.values.tag = "List" ->
                 [s EXCEPT !.values = ValuesList(Append(s.values.list, group))]

\* SqlBuilder::select
select(s, q) == [s EXCEPT !.values = ValuesSelect(q)]

\* SqlBuilder::returning
returning(s, f) == [s EXCEPT !.returning = Some(f)]

\* SqlBuilder::group_by
group_by(s, f) == [s EXCEPT !.group_by = Append(s.group_by, f)]

\* SqlBuilder::having, keeping the condition of the first call
having_first(s, cond) ==
    IF s.having.some THEN s ELSE [s EXCEPT !.having = Some(cond)]

\* SqlBuilder::having
having(s, cond) == [s EXCEPT !.having = Some(cond)]

\* SqlBuilder::and_where
and_where(s, cond) == [s EXCEPT !.wheres = Append(s.wheres, cond)]

\* SqlBuilder::or_where, pushing the condition whatever was accumulated
or_where_push(s, cond) == [s EXCEPT !.wheres = Append(s.wheres, cond)]

\* SqlBuilder::or_where
or_where(s, cond) ==
    IF s.wheres = <<>> THEN [s EXCEPT !.wheres = Append(s.wheres, cond)]
    ELSE [s EXCEPT !.wheres[Len(s.wheres)] = @ \o <<" OR ">> \o cond]

\* SqlBuilder::union, with the text put in place of the accumulated one
union_alone(s, q) == [s EXCEPT !.unions = <<" UNION ">> \o q]

\* SqlBuilder::union
union(s, q) == [s EXCEPT !.unions = s.unions \o <<" UNION ">> \o q]

\* SqlBuilder::union_all
union_all(s, q) == [s EXCEPT !.unions = s.unions \o <<" UNION ALL ">> \o q]

\* SqlBuilder::order_by
order_by(s, f, desc) ==
    LET order == IF desc THEN f \o <<" DESC">> ELSE f
    IN  [s EXCEPT !.order_by = Append(s.order_by, order)]

\* SqlBuilder::order_asc
order_asc(s, f) == order_by(s, f, FALSE)

\* SqlBuilder::order_desc
order_desc(s, f) == order_by(s, f, TRUE)

\* SqlBuilder::limit
limit(s, n) == [s EXCEPT !.limit = Some(n)]

\* SqlBuilder::offset
SqlBuilder_offset(s, n) == [s EXCEPT !.offset = Some(n)]

\* SqlBuilder::subquery, with no parentheses around the query
subquery_bare(s) == query(s)

\* SqlBuilder::subquery
subquery(s) ==
    LET q == query(s)
    IN  IF q.tag = "Err" THEN q ELSE Ok(<<"(">> \o q.text \o <<")">>)

\* SqlBuilder::subquery_as, checking the table as sql_select does
subquery_as_checked(s, name) ==
    IF s.table = <<>> THEN Err("NoTableName")
    ELSE Ok(<<"(">> \o query(s).text \o <<") AS ">> \o name)

\* SqlBuilder::subquery_as
subquery_as(s, name) ==
    LET q == query(s)
    IN  IF q.tag = "Err" THEN q
        ELSE Ok(<<"(">> \o q.text \o <<") AS ">> \o name)

\* #[derive(Clone)]: every field of the clone is the clone of the field
clone(s) == [f \in DOMAIN s |-> s[f]]

(***************************************************************************)
(* The calls made on a builder.  A call is written down with the name of   *)
(* the method and the texts passed to it.                                  *)
(***************************************************************************)
Call(name, as) == [name |-> name, args |-> as]

\* the builder a constructor call returns
Construct(c) ==
    CASE c.name = "select_from" -> select_from(c.args[1])
      [] c.name = "select_values" -> select_values(c.args)
      [] c.name = "insert_into" -> insert_into(c.args[1])
      [] c.name = "update_table" -> update_table(c.args[1])
      [] c.name = "delete_from" -> delete_from(c.args[1])

\* the builder after the mutator call c on the builder s
Apply(s, c) ==
    CASE c.name = "and_table" -> and_table(s, c.args[1])
      [] c.name = "natural" -> natural(s)
      [] c.name = "left" -> left(s)
      [] c.name = "inner" -> inner(s)
      [] c.name = "join" -> SqlBuilder_join(s, c.args[1])
      [] c.name = "on" -> on(s, c.args[1])
      [] c.name = "on_eq" -> on_eq(s, c.args[1], c.args[2])
      [] c.name = "distinct" -> distinct(s)
      [] c.name = "set_fields" -> set_fields(s, c.args)
      [] c.name = "field" -> field(s, c.args[1])
      [] c.name = "set" -> set(s, c.args[1], c.args[2])
      [] c.name = "values" -> values(s, c.args)
      [] c.name = "select" -> select(s, c.args[1])
      [] c.name = "returning" -> returning(s, c.args[1])
      [] c.name = "group_by" -> group_by(s, c.args[1])
      [] c.name = "having" -> having(s, c.args[1])
      [] c.name = "and_where" -> and_where(s, c.args[1])
      [] c.name = "or_where" -> or_where(s, c.args[1])
      [] c.name = "union" -> union(s, c.args[1])
      [] c.name = "union_all" -> union_all(s, c.args[1])
      [] c.name = "order_asc" -> order_asc(s, c.args[1])
      [] c.name = "order_desc" -> order_desc(s, c.args[1])
      [] c.name = "limit" -> limit(s, c.args[1])
      [] c.name = "offset" -> SqlBuilder_offset(s, c.args[1])

RECURSIVE Replay(_)
\* the builder a constructor call followed by mutator calls leaves
Replay(cs) ==
    IF Len(cs) = 1 THEN Construct(cs[1])
    ELSE Apply(Replay(SubSeq(cs, 1, Len(cs) - 1)), cs[Len(cs)])

(***************************************************************************)
(* The texts the calls of the model pass to the builder.                   *)
(***************************************************************************)
Tables == {<<>>, <<"books">>}
FieldLists == {<<>>, <<<<"title">>>>}
ValueLists == {<<>>, <<<<"1">>, <<"2">>>>}
Conds == {<<"a">>, <<"b">>}
Fields == {<<"title">>, <<"price">>}
Queries == {<<>>, <<"SELECT 1">>}
JoinTables == {<<"shops">>, <<"authors">>}
HavingConds == {<<"COUNT(price) > 1">>, <<"MAX(price) > 9">>}

NotCloned == [at |-> 0, s |-> <<>>, calls |-> <<>>]

Constructors ==
    {Call(n, <<t>>) : n \in {"select_from", "insert_into", "update_table",
                             "delete_from"}, t \in Tables}
    \cup {Call("select_values", fs) : fs \in FieldLists}

\* a builder was constructed by one of the calls of cs
Constructed(cs) ==
    /\ \E c \in cs : b = Construct(c) /\ log = <<c>>
    /\ hist = {}
    /\ ncalls = 0
    /\ out = NotRendered
    /\ renderer = "none"
    /\ cloned = NotCloned
    /\ input = <<>>
    /\ ScannerIdle
    /\ ChainIdle
    /\ WhereIdle

Init == Constructed(Constructors)

\* a mutator call was made: it is counted, and what an earlier render
\* returned is no longer the render of the builder as it is
Called(name, as) ==
    /\ hist' = hist \cup {name}
    /\ ncalls' = ncalls + 1
    /\ out' = NotRendered
    /\ renderer' = "none"
    /\ log' = Append(log, Call(name, as))
    /\ UNCHANGED <<cloned, binderVars, chainVars, whereVars>>

AndTable ==
    /\ ncalls < MaxCalls
    /\ b' = and_table(b, <<"shops">>)
    /\ Called("and_table", <<<<"shops">>>>)

Natural ==
    /\ ncalls < MaxCalls
    /\ b' = natural(b)
    /\ Called("natural", <<>>)

Left ==
    /\ ncalls < MaxCalls
    /\ b' = left(b)
    /\ Called("left", <<>>)

Inner ==
    /\ ncalls < MaxCalls
    /\ b' = inner(b)
    /\ Called("inner", <<>>)

Join ==
    /\ ncalls < MaxCalls
    /\ \E t \in JoinTables :
           /\ b' = SqlBuilder_join(b, t)
           /\ Called("join", <<t>>)

On ==
    /\ ncalls < MaxCalls
    /\ b' = on(b, <<"x = y">>)
    /\ Called("on", <<<<"x = y">>>>)

OnEq ==
    /\ ncalls < MaxCalls
    /\ b' = on_eq(b, <<"x">>, <<"y">>)
    /\ Called("on_eq", <<<<"x">>, <<"y">>>>)

Distinct ==
    /\ ncalls < MaxCalls
    /\ b' = distinct(b)
    /\ Called("distinct", <<>>)

Field ==
    /\ ncalls < MaxCalls
    /\ \E f \in Fields :
           /\ b' = field(b, f)
           /\ Called("field", <<f>>)

SetFields ==
    /\ ncalls < MaxCalls
    /\ \E fs \in FieldLists :
           /\ b' = set_fields(b, fs)
           /\ Called("set_fields", fs)

Set ==
    /\ ncalls < MaxCalls
    /\ b' = set(b, <<"price">>, <<"10">>)
    /\ Called("set", <<<<"price">>, <<"10">>>>)

Values ==
    /\ ncalls < MaxCalls
    /\ \E vs \in ValueLists :
           /\ b' = values(b, vs)
           /\ Called("values", vs)

Select ==
    /\ ncalls < MaxCalls
    /\ b' = select(b, <<"SELECT 1">>)
    /\ Called("select", <<<<"SELECT 1">>>>)

Returning ==
    /\ ncalls < MaxCalls
    /\ b' = returning(b, <<"id">>)
    /\ Called("returning", <<<<"id">>>>)

GroupBy ==
    /\ ncalls < MaxCalls
    /\ b' = group_by(b, <<"price">>)
    /\ Called("group_by", <<<<"price">>>>)

Having ==
    /\ ncalls < MaxCalls
    /\ \E c \in HavingConds :
           /\ b' = having(b, c)
           /\ Called("having", <<c>>)

AndWhere ==
    /\ ncalls < MaxCalls
    /\ \E c \in Conds :
           /\ b' = and_where(b, c)
           /\ Called("and_where", <<c>>)

OrWhere ==
    /\ ncalls < MaxCalls
    /\ \E c \in Conds :
           /\ b' = or_where(b, c)
           /\ Called("or_where", <<c>>)

Union ==
    /\ ncalls < MaxCalls
    /\ \E q \in Queries :
           /\ b' = union(b, q)
           /\ Called("union", <<q>>)

UnionAll ==
    /\ ncalls < MaxCalls
    /\ b' = union_all(b, <<"SELECT 2">>)
    /\ Called("union_all", <<<<"SELECT 2">>>>)

OrderAsc ==
    /\ ncalls < MaxCalls
    /\ b' = order_asc(b, <<"title">>)
    /\ Called("order_asc", <<<<"title">>>>)

OrderDesc ==
    /\ ncalls < MaxCalls
    /\ b' = order_desc(b, <<"price">>)
    /\ Called("order_desc", <<<<"price">>>>)

Limit ==
    /\ ncalls < MaxCalls
    /\ b' = limit(b, <<"10">>)
    /\ Called("limit", <<<<"10">>>>)

Offset ==
    /\ ncalls < MaxCalls
    /\ b' = SqlBuilder_offset(b, <<"5">>)
    /\ Called("offset", <<<<"5">>>>)

\* sql(), taking the accumulated WHERE conditions out of the builder
SqlTakingWheres ==
    /\ out' = sql(b)
    /\ renderer' = "sql"
    /\ hist' = hist \cup {"sql"}
    /\ b' = [b EXCEPT !.wheres = <<>>]
    /\ UNCHANGED <<ncalls, log, cloned, binderVars, chainVars, whereVars>>

\* the terminal renders read the builder (&self) and write nothing
Sql ==
    /\ out' = sql(b)
    /\ renderer' = "sql"
    /\ hist' = hist \cup {"sql"}
    /\ UNCHANGED <<b, ncalls, log, cloned, binderVars, chainVars, whereVars>>

Query ==
    /\ out' = query(b)
    /\ renderer' = "query"
    /\ hist' = hist \cup {"query"}
    /\ UNCHANGED <<b, ncalls, log, cloned, binderVars, chainVars, whereVars>>

QueryValues ==
    /\ out' = query_values(b)
    /\ renderer' = "query_values"
    /\ hist' = hist \cup {"query_values"}
    /\ UNCHANGED <<b, ncalls, log, cloned, binderVars, chainVars, whereVars>>

Subquery ==
    /\ out' = subquery(b)
    /\ renderer' = "subquery"
    /\ hist' = hist \cup {"subquery"}
    /\ UNCHANGED <<b, ncalls, log, cloned, binderVars, chainVars, whereVars>>

SubqueryAs ==
    /\ out' = subquery_as(b, <<"s">>)
    /\ renderer' = "subquery_as"
    /\ hist' = hist \cup {"subquery_as"}
    /\ UNCHANGED <<b, ncalls, log, cloned, binderVars, chainVars, whereVars>>

\* every kind of statement, with the clauses all kinds share
Next ==
    \/ AndTable
    \/ Field
    \/ SetFields
    \/ Set
    \/ Values
    \/ Select
    \/ Returning
    \/ AndWhere
    \/ Sql

Spec == Init /\ [][Next]_vars

\* C10: sql() fails with NoTableName when the kind is SelectFrom,
\* InsertInto, UpdateTable or DeleteFrom and the table is empty; else with
\* NoValues when the kind is SelectValues with no fields or InsertInto on
\* which neither values() nor select() was called; else with NoSetFields
\* when the kind is UpdateTable with no sets; and succeeds otherwise.
C10_SqlErrors ==
    out.tag # "none" =>
        IF b.statement # "SelectValues" /\ b.table = <<>>
        THEN out = Err("NoTableName")
        ELSE IF \/ b.statement = "SelectValues" /\ Len(b.fields) = 0
                \/ b.statement = "InsertInto" /\ hist \cap {"values", "select"} = {}
             THEN out = Err("NoValues")
        ELSE IF b.statement = "UpdateTable" /\ Len(b.sets) = 0
             THEN out = Err("NoSetFields")
        ELSE out.tag = "Ok"

\* sql() was called on an UpdateTable builder with an empty table and no
\* sets, and reported NoTableName
C10_Witness ==
    /\ b.statement = "UpdateTable"
    /\ b.table = <<>>
    /\ b.sets = <<>>
    /\ out = Err("NoTableName")

(***************************************************************************)
(* The WHERE part: the statements that have one, and the calls that        *)
(* accumulate conditions.                                                  *)
(***************************************************************************)
InitWhere ==
    Constructed({Call(n, <<<<"books">>>>) :
                     n \in {"select_from", "update_table", "delete_from"}})

NextWhere ==
    \/ AndWhere
    \/ OrWhere
    \/ Set
    \/ Field
    \/ Sql

SpecWhere == InitWhere /\ [][NextWhere]_vars

\* the literal pieces that end the WHERE part of a statement
AfterWhere ==
    {" GROUP BY ", " UNION ", " UNION ALL ", " ORDER BY ", " LIMIT ",
     " OFFSET ", " RETURNING ", ";"}

\* the part of a rendered statement from its WHERE keyword to the next
\* clause, empty when it has no WHERE keyword
WherePart(t) ==
    LET starts == {i \in 1..Len(t) : t[i] = " WHERE "}
    IN  IF starts = {} THEN <<>>
        ELSE LET from == CHOOSE i \in starts : \A j \in starts : i <= j
                 ends == {i \in from..Len(t) : t[i] \in AfterWhere}
                 to == IF ends = {} THEN Len(t) + 1
                       ELSE CHOOSE i \in ends : \A j \in ends : i <= j
             IN  SubSeq(t, from, to - 1)

\* the WHERE part the conditions cs stand for
ExpectedWhere(cs) ==
    IF Len(cs) = 0 THEN <<>>
    ELSE IF Len(cs) = 1 THEN <<" WHERE ">> \o cs[1]
    ELSE <<" WHERE ", "(">> \o cs[1] \o <<")">>
         \o Concat([i \in 1..(Len(cs) - 1) |->
                        <<" AND ", "(">> \o cs[i + 1] \o <<")">>])

\* C11: in a rendered SELECT, UPDATE or DELETE statement the WHERE part is
\* empty when no condition was accumulated, ` WHERE c` when exactly one
\* condition c was, and ` WHERE (c1) AND (c2) AND ...` in insertion order
\* when two or more were.
C11_WherePart ==
    (/\ renderer = "sql"
     /\ out.tag = "Ok"
     /\ b.statement \in {"SelectFrom", "UpdateTable", "DeleteFrom"}) =>
        WherePart(out.text) = ExpectedWhere(b.wheres)

\* an UPDATE with two conditions was rendered
C11_Witness ==
    /\ renderer = "sql"
    /\ out.tag = "Ok"
    /\ b.statement = "UpdateTable"
    /\ Len(b.wheres) = 2

\* the step is the call or_where(c)
OrWhereCalled(c) == log' = Append(log, Call("or_where", <<c>>))

\* C12: or_where(c) on a builder with at least one condition keeps the
\* number of conditions, appends ` OR c` to the last one and leaves the
\* earlier ones as they were, so that after and_where(x), and_where(y) the
\* WHERE part becomes ` WHERE (x) AND (y OR c)`; on a builder with no
\* condition it does what and_where(c) does.
C12_OrWhere ==
    [][\A c \in Conds :
           OrWhereCalled(c) =>
               /\ b.wheres # <<>> =>
                      /\ Len(b'.wheres) = Len(b.wheres)
                      /\ \A i \in 1..(Len(b.wheres) - 1) :
                             b'.wheres[i] = b.wheres[i]
                      /\ b'.wheres[Len(b.wheres)] =
                             b.wheres[Len(b.wheres)] \o <<" OR ">> \o c
                      /\ [b' EXCEPT !.wheres = b.wheres] = b
               /\ (Len(b.wheres) = 2 /\ sql(b').tag = "Ok") =>
                      WherePart(sql(b').text) =
                          <<" WHERE ", "(">> \o b.wheres[1]
                          \o <<")", " AND ", "(">> \o b.wheres[2]
                          \o <<" OR ">> \o c \o <<")">>
               /\ b.wheres = <<>> =>
                      b' = [b EXCEPT !.wheres = <<c>>]]_vars

\* and_where, and_where, or_where were called in this order and the
\* statement was rendered
C12_Witness ==
    /\ Len(log) = 4
    /\ log[2].name = "and_where"
    /\ log[3].name = "and_where"
    /\ log[4].name = "or_where"
    /\ renderer = "sql"
    /\ out.tag = "Ok"

(***************************************************************************)
(* The SELECT statement and the calls that fill its clauses.               *)
(***************************************************************************)
InitSelect == Constructed({Call("select_from", <<<<"books">>>>)})

NextSelect ==
    \/ Distinct
    \/ Field
    \/ Natural
    \/ Left
    \/ Inner
    \/ Join
    \/ On
    \/ AndWhere
    \/ GroupBy
    \/ Having
    \/ Union
    \/ UnionAll
    \/ OrderAsc
    \/ OrderDesc
    \/ Limit
    \/ Offset
    \/ Sql

SpecSelect == InitSelect /\ [][NextSelect]_vars

\* the calls of the log made to the methods ns, in the order of the log
CallsOf(ns) == SelectSeq(log, LAMBDA c : c.name \in ns)

\* the first text passed to each of the calls cs
FirstArgs(cs) == [i \in 1..Len(cs) |-> cs[i].args[1]]

\* the texts of list with sep between each two
Separated(list, sep) ==
    IF list = <<>> THEN <<>>
    ELSE list[1] \o Concat([i \in 1..(Len(list) - 1) |-> sep \o list[i + 1]])

JoinCalls == {"natural", "left", "inner", "join", "on"}

\* each clause of the statement as its own calls alone make it
DistinctClause == IF CallsOf({"distinct"}) = <<>> THEN <<>> ELSE <<" DISTINCT">>

FieldsClause ==
    IF CallsOf({"field"}) = <<>> THEN <<"*">>
    ELSE Separated(FirstArgs(CallsOf({"field"})), <<", ">>)

JoinsClause ==
    LET js == Replay(<<log[1]>> \o CallsOf(JoinCalls)).joins
    IN  Concat([i \in 1..Len(js) |-> <<" ">> \o js[i]])

WhereClause == ExpectedWhere(FirstArgs(CallsOf({"and_where"})))

GroupByClause ==
    LET gs == FirstArgs(CallsOf({"group_by"}))
        hs == FirstArgs(CallsOf({"having"}))
    IN  IF gs = <<>> THEN <<>>
        ELSE <<" GROUP BY ">> \o Separated(gs, <<", ">>)
             \o (IF hs = <<>> THEN <<>> ELSE <<" HAVING ">> \o hs[Len(hs)])

UnionClause ==
    LET us == CallsOf({"union", "union_all"})
    IN  Concat([i \in 1..Len(us) |->
                    (IF us[i].name = "union" THEN <<" UNION ">>
                     ELSE <<" UNION ALL ">>) \o us[i].args[1]])

OrderByClause ==
    LET os == CallsOf({"order_asc", "order_desc"})
    IN  IF os = <<>> \/ CallsOf({"union", "union_all"}) # <<>> THEN <<>>
        ELSE <<" ORDER BY ">>
             \o Separated([i \in 1..Len(os) |->
                               IF os[i].name = "order_desc"
                               THEN os[i].args[1] \o <<" DESC">>
                               ELSE os[i].args[1]], <<", ">>)

LimitClause ==
    LET ls == FirstArgs(CallsOf({"limit"}))
    IN  IF ls = <<>> THEN <<>> ELSE <<" LIMIT ">> \o ls[Len(ls)]

OffsetClause ==
    LET os == FirstArgs(CallsOf({"offset"}))
    IN  IF os = <<>> THEN <<>> ELSE <<" OFFSET ">> \o os[Len(os)]

\* C13: the rendered SELECT statement is SELECT, DISTINCT, the field list,
\* FROM table, the joins, WHERE, GROUP BY with HAVING, the union text,
\* ORDER BY, LIMIT, OFFSET and `;` in this order, each clause being what its
\* own calls make it in the order they were made, however the calls of
\* different clauses were interleaved.
C13_FixedOrder ==
    (renderer = "sql" /\ out.tag = "Ok") =>
        out.text = <<"SELECT">> \o DistinctClause \o <<" ">> \o FieldsClause
                   \o <<" FROM ">> \o log[1].args[1] \o JoinsClause
                   \o WhereClause \o GroupByClause \o UnionClause
                   \o OrderByClause \o LimitClause \o OffsetClause \o <<";">>

\* limit, group_by and and_where were called in the reverse of the order
\* of their clauses, and the statement was rendered
C13_Witness ==
    /\ Len(log) = 4
    /\ log[2].name = "limit"
    /\ log[3].name = "group_by"
    /\ log[4].name = "and_where"
    /\ renderer = "sql"
    /\ out.tag = "Ok"

\* the field list of a rendered SELECT statement: what stands between
\* `SELECT `, or `SELECT DISTINCT `, and ` FROM `
FieldList(t) ==
    LET from == CHOOSE i \in 1..Len(t) :
                    t[i] = " FROM " /\ \A j \in 1..(i - 1) : t[j] # " FROM "
        start == IF t[2] = " DISTINCT" THEN 4 ELSE 3
    IN  SubSeq(t, start, from - 1)

\* C14 as stated: the rendered field list is the fields in insertion order
\* joined by a single space, or `*` when no field was added.
C14_Original ==
    (renderer = "sql" /\ out.tag = "Ok") =>
        FieldList(out.text) =
            IF CallsOf({"field"}) = <<>> THEN <<"*">>
            ELSE Separated(FirstArgs(CallsOf({"field"})), <<" ">>)

\* C14: the rendered field list is the fields in insertion order joined by
\* a comma and a space, or `*` when no field was added.
C14_Amended ==
    (renderer = "sql" /\ out.tag = "Ok") =>
        FieldList(out.text) =
            IF CallsOf({"field"}) = <<>> THEN <<"*">>
            ELSE Separated(FirstArgs(CallsOf({"field"})), <<", ">>)

\* a statement with two different fields was rendered
C14_Witness ==
    /\ renderer = "sql"
    /\ out.tag = "Ok"
    /\ Len(CallsOf({"field"})) = 2
    /\ CallsOf({"field"})[1] # CallsOf({"field"})[2]

\* the union text of a rendered SELECT statement: from its first UNION
\* keyword to the next clause, empty when it has no UNION keyword
UnionText(t) ==
    LET starts == {i \in 1..Len(t) : t[i] \in {" UNION ", " UNION ALL "}}
    IN  IF starts = {} THEN <<>>
        ELSE LET from == CHOOSE i \in starts : \A j \in starts : i <= j
                 ends == {i \in from..Len(t) :
                              t[i] \in {" ORDER BY ", " LIMIT ", " OFFSET ", ";"}}
                 to == CHOOSE i \in ends : \A j \in ends : i <= j
             IN  SubSeq(t, from, to - 1)

\* C15: a rendered SELECT statement has an ORDER BY clause exactly when an
\* order_by entry was accumulated and neither union() nor union_all() was
\* called, and its union text is the texts of the union calls, each after
\* its keyword, in call order.
C15_OrderByUnion ==
    (renderer = "sql" /\ out.tag = "Ok") =>
        /\ (\E i \in 1..Len(out.text) : out.text[i] = " ORDER BY ") <=>
               /\ CallsOf({"order_asc", "order_desc"}) # <<>>
               /\ CallsOf({"union", "union_all"}) = <<>>
        /\ UnionText(out.text) = UnionClause

\* a statement with an order_by entry and a union with an empty query text
\* was rendered
C15_Witness ==
    /\ renderer = "sql"
    /\ out.tag = "Ok"
    /\ CallsOf({"order_asc", "order_desc"}) # <<>>
    /\ CallsOf({"union"}) = <<Call("union", <<<<>>>>)>>

(***************************************************************************)
(* The values of an INSERT (checked under Spec).                           *)
(***************************************************************************)
\* the group values(vs) makes: "(v1, v2, ...)"
ValuesGroup(vs) == <<"(">> \o Separated(vs, <<", ">>) \o <<")">>

\* the index in the log of the last select() call, 0 when there is none
LastSelect ==
    LET is == {i \in 1..Len(log) : log[i].name = "select"}
    IN  IF is = {} THEN 0 ELSE CHOOSE i \in is : \A j \in is : j <= i

\* the groups of the values() calls made after the last select() call
GroupsSinceSelect ==
    LET cs == SelectSeq(SubSeq(log, LastSelect + 1, Len(log)),
                        LAMBDA c : c.name = "values")
    IN  [i \in 1..Len(cs) |-> ValuesGroup(cs[i].args)]

\* what a rendered INSERT has between `VALUES ` and the next clause, empty
\* when it has no VALUES keyword
ValuesPart(t) ==
    LET starts == {i \in 1..Len(t) : t[i] = ") VALUES "}
    IN  IF starts = {} THEN <<>>
        ELSE LET from == CHOOSE i \in starts : \A j \in starts : i <= j
                 ends == {i \in from..Len(t) : t[i] \in {" RETURNING ", ";"}}
                 to == CHOOSE i \in ends : \A j \in ends : i <= j
             IN  SubSeq(t, from + 1, to - 1)

\* C16: values(g) makes Empty into List([g]), appends g to a List and makes
\* Select(q) into List([g]); select(q) makes any values into Select(q); and
\* a rendered INSERT has the groups added since the last select(), in
\* insertion order, and no others.
C16_ValuesTransitions ==
    /\ [][/\ \A vs \in ValueLists :
                 log' = Append(log, Call("values", vs)) =>
                     b'.values =
                         CASE b.values.tag = "Empty" ->
                                  ValuesList(<<ValuesGroup(vs)>>)
                           [] b.values.tag = "List" ->
                                  ValuesList(Append(b.values.list,
                                                    ValuesGroup(vs)))
                           [] b.values.tag = "Select" ->
                                  ValuesList(<<ValuesGroup(vs)>>)
          /\ \A q \in {<<"SELECT 1">>} :
                 log' = Append(log, Call("select", <<q>>)) =>
                     b'.values = ValuesSelect(q)]_vars
    /\ []((/\ renderer = "sql"
           /\ out.tag = "Ok"
           /\ b.statement = "InsertInto") =>
              ValuesPart(out.text) = Separated(GroupsSinceSelect, <<", ">>))

\* values(), select(), values() were called in this order on an INSERT and
\* the statement was rendered
C16_Witness ==
    /\ b.statement = "InsertInto"
    /\ Len(log) = 4
    /\ log[2].name = "values"
    /\ log[3].name = "select"
    /\ log[4].name = "values"
    /\ renderer = "sql"
    /\ out.tag = "Ok"

\* C17: the rendered text of an INSERT on which returning(f) was called
\* ends with ` RETURNING f;`, with a list of values and with a select.
C17_Returning ==
    (/\ renderer = "sql"
     /\ out.tag = "Ok"
     /\ b.statement = "InsertInto"
     /\ CallsOf({"returning"}) # <<>>) =>
        LET fs == FirstArgs(CallsOf({"returning"}))
            end == <<" RETURNING ">> \o fs[Len(fs)] \o <<";">>
        IN  /\ Len(out.text) >= Len(end)
            /\ SubSeq(out.text, Len(out.text) - Len(end) + 1, Len(out.text))
                   = end

(***************************************************************************)
(* The terminal renders, between and after mutator calls.                  *)
(***************************************************************************)
InitRender ==
    Constructed({Call("select_from", <<t>>) : t \in Tables}
                \cup {Call("select_values", <<<<"1">>>>)})

NextRender ==
    \/ Field
    \/ AndWhere
    \/ Sql
    \/ Query
    \/ QueryValues
    \/ Subquery
    \/ SubqueryAs

SpecRender == InitRender /\ [][NextRender]_vars

\* what the terminal render called name returns for the builder s
RenderOf(name, s) ==
    CASE name = "sql" -> sql(s)
      [] name = "query" -> query(s)
      [] name = "query_values" -> query_values(s)
      [] name = "subquery" -> subquery(s)
      [] name = "subquery_as" -> subquery_as(s, <<"s">>)

\* C18: a terminal render (sql, query, query_values, subquery, subquery_as)
\* leaves every field of the builder as it was; the same render called
\* again on the unmodified builder returns the same result; and what a
\* render returns is what it returns for the builder the mutator calls
\* alone make, whatever renders were called between them.
C18_RenderReadsOnly ==
    /\ [][ncalls' = ncalls =>
              /\ b' = b
              /\ (renderer # "none" /\ renderer' = renderer) => out' = out]_vars
    /\ [](renderer # "none" => out = RenderOf(renderer, Replay(log)))

\* renders of three kinds were called on a builder on which two mutators
\* were called, the last of them after the second mutator
C18_Witness ==
    /\ Len(log) = 3
    /\ {"sql", "query", "subquery_as"} \subseteq hist
    /\ renderer = "subquery_as"
    /\ out.tag = "Ok"

(***************************************************************************)
(* A builder and its clone.  `cloned` holds the clone, the length the log  *)
(* of the original had when the clone was made, and the mutator calls made *)
(* on the clone since.                                                     *)
(***************************************************************************)
InitClone ==
    Constructed({Call(n, <<<<"books">>>>) : n \in {"select_from", "delete_from"}})

\* the mutator calls made on the original and on the clone
ForkCalls ==
    {Call("field", <<<<"price">>>>), Call("limit", <<<<"10">>>>)}
    \cup {Call("and_where", <<c>>) : c \in Conds}

\* let copy = b.clone()
Clone ==
    /\ cloned = NotCloned
    /\ cloned' = [at |-> Len(log), s |-> clone(b), calls |-> <<>>]
    /\ UNCHANGED <<b, hist, ncalls, out, renderer, log, binderVars, chainVars,
                   whereVars>>

\* a mutator call on the original
MutateOriginal ==
    /\ ncalls < MaxCalls
    /\ \E c \in ForkCalls :
           /\ b' = Apply(b, c)
           /\ Called(c.name, c.args)

\* a mutator call on the clone that reaches the original as well
MutateShared ==
    /\ cloned # NotCloned
    /\ ncalls < MaxCalls
    /\ \E c \in ForkCalls :
           /\ cloned' = [cloned EXCEPT !.s = Apply(cloned.s, c),
                                       !.calls = Append(cloned.calls, c)]
           /\ b' = Apply(b, c)
    /\ ncalls' = ncalls + 1
    /\ UNCHANGED <<hist, out, renderer, log, binderVars, chainVars, whereVars>>

\* a mutator call on the clone
MutateClone ==
    /\ cloned # NotCloned
    /\ ncalls < MaxCalls
    /\ \E c \in ForkCalls :
           cloned' = [cloned EXCEPT !.s = Apply(cloned.s, c),
                                    !.calls = Append(cloned.calls, c)]
    /\ ncalls' = ncalls + 1
    /\ UNCHANGED <<b, hist, out, renderer, log, binderVars, chainVars,
                   whereVars>>

NextClone ==
    \/ Clone
    \/ MutateOriginal
    \/ MutateClone

SpecClone == InitClone /\ [][NextClone]_vars

\* C19: the clone starts with the accumulated state of the original; a
\* mutator call on the clone leaves what the original renders as it was,
\* and a mutator call on the original leaves what the clone renders as it
\* was.
C19_CloneIndependent ==
    [][/\ (cloned = NotCloned /\ cloned' # NotCloned) =>
              /\ cloned'.s = b
              /\ sql(cloned'.s) = sql(b)
       /\ (cloned # NotCloned /\ cloned'.calls # cloned.calls) =>
              sql(b') = sql(b)
       /\ (cloned # NotCloned /\ log' # log) =>
              sql(cloned'.s) = sql(cloned.s)]_vars

\* the original and the clone were both mutated after the clone was made,
\* and render different statements
C19_Witness ==
    /\ cloned # NotCloned
    /\ cloned.at > 1
    /\ Len(cloned.calls) > 0
    /\ Len(log) > cloned.at
    /\ sql(b).tag = "Ok"
    /\ sql(cloned.s).tag = "Ok"
    /\ sql(b) # sql(cloned.s)

(***************************************************************************)
(* The joins of a SELECT (checked under SpecSelect).                       *)
(***************************************************************************)
\* the indexes in the log of the calls to the methods ns
IndexesOf(ns) == {i \in 1..Len(log) : log[i].name \in ns}

Highest(S) == CHOOSE i \in S : \A j \in S : j <= i

\* the join() call at index p of the log follows a natural() call with no
\* join() call between the two
NaturalAt(p) ==
    \E q \in IndexesOf({"natural"}) :
        /\ q < p
        /\ \A j \in IndexesOf({"join"}) : ~(q < j /\ j < p)

\* the operator method called last before index p of the log
OperatorAt(p) ==
    LET qs == {q \in IndexesOf({"left", "inner"}) : q < p}
    IN  IF qs = {} THEN "none" ELSE log[Highest(qs)].name

\* the keyword of a join made after the operator method op
KeywordOf(op, nat) ==
    CASE op = "none" -> IF nat THEN "NATURAL JOIN " ELSE "JOIN "
      [] op = "left" -> IF nat THEN "NATURAL LEFT JOIN " ELSE "LEFT JOIN "
      [] op = "inner" -> IF nat THEN "NATURAL INNER JOIN " ELSE "INNER JOIN "

\* the constraints on() added to the join() call at index p of the log
ConstraintsAt(p) ==
    LET cs == SelectSeq(
                  [i \in 1..(Len(log) - p) |->
                       IF \E j \in IndexesOf({"join"}) : p < j /\ j <= p + i
                       THEN Call("later", <<>>)
                       ELSE log[p + i]],
                  LAMBDA c : c.name = "on")
    IN  Concat([i \in 1..Len(cs) |-> <<" ON ">> \o cs[i].args[1]])

\* the text of the join() call at index p of the log
ExpectedJoin(p) ==
    <<" ", KeywordOf(OperatorAt(p), NaturalAt(p))>> \o log[p].args[1]
    \o ConstraintsAt(p)

\* the joins of a rendered SELECT statement: what stands between the table
\* and the next clause
JoinsPart(t) ==
    LET from == CHOOSE i \in 1..Len(t) : t[i] = " FROM "
        ends == {i \in (from + 2)..Len(t) :
                     t[i] \in AfterWhere \cup {" WHERE "}}
    IN  SubSeq(t, from + 2, (CHOOSE i \in ends : \A j \in ends : i <= j) - 1)

\* C20: a join is rendered with NATURAL exactly when natural() was called
\* since the join() call before it, and with the keyword of the operator
\* method called last before it, however many join() calls were made since:
\* left().join(x).join(y) renders `LEFT JOIN x LEFT JOIN y`.
C20_JoinFlags ==
    (renderer = "sql" /\ out.tag = "Ok") =>
        JoinsPart(out.text) =
            LET js == SelectSeq([i \in 1..Len(log) |-> i],
                                LAMBDA i : log[i].name = "join")
            IN  Concat([k \in 1..Len(js) |-> ExpectedJoin(js[k])])

\* left(), join(shops), join(authors) were called in this order and the
\* statement was rendered
C20_Witness ==
    /\ Len(log) = 4
    /\ log[2] = Call("left", <<>>)
    /\ log[3] = Call("join", <<<<"shops">>>>)
    /\ log[4] = Call("join", <<<<"authors">>>>)
    /\ renderer = "sql"
    /\ out.text = <<"SELECT", " ", "*", " FROM ", "books", " ", "LEFT JOIN ",
                    "shops", " ", "LEFT JOIN ", "authors", ";">>

(***************************************************************************)
(* The renders of a SELECT against each other (checked under SpecRender).  *)
(***************************************************************************)
\* C21: subquery() returns `(` + query() + `)`, subquery_as(name) returns
\* `(` + query() + `) AS ` + name, query() does not end with `;`, and for a
\* SelectFrom builder with a non-empty table sql() returns query() + `;`.
C21_SubqueryWraps ==
    LET q == query(b)
    IN  /\ q.tag = "Ok"
        /\ q.text[Len(q.text)] # ";"
        /\ renderer = "subquery" => out = Ok(<<"(">> \o q.text \o <<")">>)
        /\ renderer = "subquery_as" =>
               out = Ok(<<"(">> \o q.text \o <<") AS ", "s">>)
        /\ (/\ renderer = "sql"
            /\ b.statement = "SelectFrom"
            /\ b.table # <<>>) => out = Ok(q.text \o <<";">>)

\* subquery() was called on a SELECT with a field and a condition
C21_Witness ==
    /\ renderer = "subquery"
    /\ b.statement = "SelectFrom"
    /\ b.table # <<>>
    /\ b.fields # <<>>
    /\ b.wheres # <<>>
    /\ out.tag = "Ok"

(***************************************************************************)
(* Where (src/where-builder.rs).  The text of a Where is a sequence of     *)
(* one-character strings, as in the binders: the macros and the methods    *)
(* cut the same text into different pieces.                                *)
(***************************************************************************)
NoError == [some |-> FALSE, kind |-> "none", text |-> <<>>]
NoWhereField == [some |-> TRUE, kind |-> "NoWhereField", text |-> <<>>]
NoWhereValue(t) == [some |-> TRUE, kind |-> "NoWhereValue", text |-> t]

\* Where::default()
Where_default ==
    [text |-> <<>>, prefix |-> None, error |-> NoError, was_and |-> FALSE]

\* Where::new
Where_new(smth) ==
    IF smth = <<>> THEN [Where_default EXCEPT !.error = NoWhereField]
    ELSE [Where_default EXCEPT !.text = smth]

\* Where::empty
Where_empty == Where_default

\* Where::in_brackets
Where_in_brackets(s) ==
    IF s.text = <<>> THEN [s EXCEPT !.error = NoWhereField]
    ELSE [s EXCEPT !.text = <<"(">> \o s.text \o <<")">>]

\* Where::not
Where_not(s) ==
    IF s.text = <<>> THEN [s EXCEPT !.error = NoWhereField]
    ELSE [s EXCEPT !.text = <<"N", "O", "T", " ">> \o s.text]

\* Where::and, checking the operand before the text
Where_and_value_first(s, smth) ==
    IF smth = <<>> THEN [s EXCEPT !.error = NoWhereValue(s.text)]
    ELSE IF s.text = <<>> THEN [s EXCEPT !.error = NoWhereField]
    ELSE LET wrapped == IF ~s.was_and THEN <<"(">> \o s.text \o <<")">>
                        ELSE s.text
         IN  [s EXCEPT !.text = wrapped \o <<" ", "A", "N", "D", " ", "(">>
                                 \o smth \o <<")">>,
                       !.was_and = TRUE]

\* Where::and, wrapping the text in brackets on every call
Where_and_rewrapping(s, smth) ==
    IF s.text = <<>> THEN [s EXCEPT !.error = NoWhereField]
    ELSE IF smth = <<>> THEN [s EXCEPT !.error = NoWhereValue(s.text)]
    ELSE [s EXCEPT !.text = <<"(">> \o s.text
                            \o <<")", " ", "A", "N", "D", " ", "(">>
                            \o smth \o <<")">>,
                   !.was_and = TRUE]

\* Where::and
Where_and(s, smth) ==
    IF s.text = <<>> THEN [s EXCEPT !.error = NoWhereField]
    ELSE IF smth = <<>> THEN [s EXCEPT !.error = NoWhereValue(s.text)]
    ELSE LET wrapped == IF ~s.was_and THEN <<"(">> \o s.text \o <<")">>
                        ELSE s.text
         IN  [s EXCEPT !.text = wrapped \o <<" ", "A", "N", "D", " ", "(">>
                                 \o smth \o <<")">>,
                       !.was_and = TRUE]

\* Where::or, resetting was_and when it succeeds
Where_or_resetting(s, smth) ==
    IF s.text = <<>> THEN [s EXCEPT !.error = NoWhereField]
    ELSE IF smth = <<>> THEN [s EXCEPT !.error = NoWhereValue(s.text)]
    ELSE [s EXCEPT !.text = s.text \o <<" ", "O", "R", " ">> \o smth,
                   !.was_and = FALSE]

\* Where::or, clearing the recorded error when it succeeds
Where_or_clearing(s, smth) ==
    IF s.text = <<>> THEN [s EXCEPT !.error = NoWhereField]
    ELSE IF smth = <<>> THEN [s EXCEPT !.error = NoWhereValue(s.text)]
    ELSE [s EXCEPT !.text = s.text \o <<" ", "O", "R", " ">> \o smth,
                   !.error = NoError]

\* Where::or
Where_or(s, smth) ==
    IF s.text = <<>> THEN [s EXCEPT !.error = NoWhereField]
    ELSE IF smth = <<>> THEN [s EXCEPT !.error = NoWhereValue(s.text)]
    ELSE [s EXCEPT !.text = s.text \o <<" ", "O", "R", " ">> \o smth]

\* the text of eq and ne once a pending prefix is pushed
WithPrefix(s) ==
    IF s.prefix.some THEN s.text \o <<" ">> \o s.prefix.val ELSE s.text

\* Where::eq, doing nothing once an error is recorded
Where_eq_unless_failed(s, smth) ==
    IF s.error.some THEN s
    ELSE IF smth = <<>> THEN [s EXCEPT !.error = NoWhereValue(s.text)]
    ELSE [s EXCEPT !.text = WithPrefix(s) \o <<" ", "=", " ">> \o smth,
                   !.prefix = None]

\* Where::eq
Where_eq(s, smth) ==
    IF smth = <<>> THEN [s EXCEPT !.error = NoWhereValue(s.text)]
    ELSE [s EXCEPT !.text = WithPrefix(s) \o <<" ", "=", " ">> \o smth,
                   !.prefix = None]

\* Where::ne
Where_ne(s, smth) ==
    IF smth = <<>> THEN [s EXCEPT !.error = NoWhereValue(s.text)]
    ELSE [s EXCEPT !.text = WithPrefix(s) \o <<" ", "<", ">", " ">> \o smth,
                   !.prefix = None]

WhereOk(t) == [tag |-> "Ok", text |-> t, err |-> NoError]
WhereErr(e) == [tag |-> "Err", text |-> <<>>, err |-> e]

\* Where::build
Where_build(s) ==
    IF s.error.some THEN WhereErr(s.error) ELSE WhereOk(s.text)

\* impl fmt::Display for Where
Where_to_string(s) == s.text

\* macro and!
and_macro(f, ls) ==
    <<"(">> \o f
    \o Concat([i \in 1..Len(ls) |-> <<")", " ", "A", "N", "D", " ", "(">> \o ls[i]])
    \o <<")">>

\* the Where a constructor call returns
WhereConstruct(c) ==
    CASE c.name = "new" -> Where_new(c.args[1])
      [] c.name = "empty" -> Where_empty

\* the Where after the call c on the Where s
WhereApply(s, c) ==
    CASE c.name = "in_brackets" -> Where_in_brackets(s)
      [] c.name = "not" -> Where_not(s)
      [] c.name = "and" -> Where_and(s, c.args[1])
      [] c.name = "or" -> Where_or(s, c.args[1])
      [] c.name = "eq" -> Where_eq(s, c.args[1])
      [] c.name = "ne" -> Where_ne(s, c.args[1])

RECURSIVE WhereReplay(_)
\* the Where a constructor call followed by other calls leaves
WhereReplay(cs) ==
    IF Len(cs) = 1 THEN WhereConstruct(cs[1])
    ELSE WhereApply(WhereReplay(SubSeq(cs, 1, Len(cs) - 1)), cs[Len(cs)])

\* the texts the calls of the model pass to a Where
Seeds == {<<>>, <<"a">>}
Operands == {<<>>, <<"b">>, <<"c">>}
Operators == {<<>>, <<"1">>}

InitCond ==
    /\ \E c \in {Call("new", <<s>>) : s \in Seeds} \cup {Call("empty", <<>>)} :
           /\ wh = WhereConstruct(c)
           /\ whlog = <<c>>
    /\ input = <<>>
    /\ ScannerIdle
    /\ ChainIdle
    /\ BuilderIdle

\* a call was made on the Where
WhereCalled(name, as) ==
    /\ whlog' = Append(whlog, Call(name, as))
    /\ UNCHANGED <<binderVars, chainVars, builderVars>>

WhereInBrackets ==
    /\ Len(whlog) <= MaxCalls
    /\ wh' = Where_in_brackets(wh)
    /\ WhereCalled("in_brackets", <<>>)

WhereNot ==
    /\ Len(whlog) <= MaxCalls
    /\ wh' = Where_not(wh)
    /\ WhereCalled("not", <<>>)

WhereAnd ==
    /\ Len(whlog) <= MaxCalls
    /\ \E o \in Operands :
           /\ wh' = Where_and(wh, o)
           /\ WhereCalled("and", <<o>>)

WhereOr ==
    /\ Len(whlog) <= MaxCalls
    /\ \E o \in Operands :
           /\ wh' = Where_or(wh, o)
           /\ WhereCalled("or", <<o>>)

WhereEq ==
    /\ Len(whlog) <= MaxCalls
    /\ \E v \in Operators :
           /\ wh' = Where_eq(wh, v)
           /\ WhereCalled("eq", <<v>>)

WhereNe ==
    /\ Len(whlog) <= MaxCalls
    /\ \E v \in Operators :
           /\ wh' = Where_ne(wh, v)
           /\ WhereCalled("ne", <<v>>)

NextCond ==
    \/ WhereInBrackets
    \/ WhereNot
    \/ WhereAnd
    \/ WhereOr
    \/ WhereEq
    \/ WhereNe

SpecCond == InitCond /\ [][NextCond]_vars

\* the call c on the Where s is one whose preconditions do not hold
Fails(s, c) ==
    CASE c.name \in {"in_brackets", "not"} -> s.text = <<>>
      [] c.name \in {"and", "or"} -> s.text = <<>> \/ c.args[1] = <<>>
      [] c.name \in {"eq", "ne"} -> c.args[1] = <<>>

\* the call the step makes on the Where
ThisCall == whlog'[Len(whlog')]

\* C22: a failing call on a Where (in_brackets, not, and, or, eq, ne)
\* records an error and leaves text, prefix and was_and as they were; a
\* call whose preconditions hold changes the text, whether or not an error
\* was recorded before.
C22_FailSoft ==
    [][whlog' # whlog =>
           /\ Fails(wh, ThisCall) =>
                  /\ wh'.error.some
                  /\ wh'.text = wh.text
                  /\ wh'.prefix = wh.prefix
                  /\ wh'.was_and = wh.was_and
           /\ ~Fails(wh, ThisCall) => wh'.text # wh.text]_vars

\* new("a").eq("").eq("1"): the second eq changed the text after the first
\* one failed
C22_Witness ==
    /\ whlog = <<Call("new", <<<<"a">>>>), Call("eq", <<<<>>>>),
                 Call("eq", <<<<"1">>>>)>>
    /\ wh.error.some
    /\ wh.text = <<"a", " ", "=", " ", "1">>

\* the call at index i of the log of the Where failed
FailedAt(i) ==
    IF i = 1 THEN whlog[1].name = "new" /\ whlog[1].args[1] = <<>>
    ELSE Fails(WhereReplay(SubSeq(whlog, 1, i - 1)), whlog[i])

\* the error the failing call at index i of the log of the Where recorded
ErrorAt(i) ==
    IF i = 1 THEN NoWhereField
    ELSE LET s == WhereReplay(SubSeq(whlog, 1, i - 1))
         IN  IF whlog[i].name \in {"eq", "ne"} THEN NoWhereValue(s.text)
             ELSE IF s.text = <<>> THEN NoWhereField
             ELSE NoWhereValue(s.text)

\* C23: build() returns the error of the most recent failing call (new
\* with an empty seed included) whatever calls were made after it, and
\* Ok(text) only when no call failed; stringification returns the text
\* whether or not an error is recorded.
C23_StickyError ==
    LET failed == {i \in 1..Len(whlog) : FailedAt(i)}
    IN  /\ Where_build(wh) =
               IF failed = {} THEN WhereOk(wh.text)
               ELSE WhereErr(ErrorAt(Highest(failed)))
        /\ Where_to_string(wh) = WhereReplay(whlog).text

\* new("").eq("").eq("1"): two calls failed, the last one succeeded
C23_Witness ==
    /\ whlog = <<Call("new", <<<<>>>>), Call("eq", <<<<>>>>),
                 Call("eq", <<<<"1">>>>)>>
    /\ Where_build(wh) = WhereErr(NoWhereValue(<<>>))
    /\ Where_to_string(wh) = <<" ", "=", " ", "1">>

\* the calls of the log of the Where after index i are and() calls with
\* non-empty operands, at least one, made on a non-empty text
AndChainFrom(i) ==
    /\ i < Len(whlog)
    /\ WhereReplay(SubSeq(whlog, 1, i)).text # <<>>
    /\ \A j \in (i + 1)..Len(whlog) :
           whlog[j].name = "and" /\ whlog[j].args[1] # <<>>

\* what and!(t, o1, ..., ok) gives for the text t before the chain that
\* starts after index i and the operands of the chain
AndMacroFrom(i) ==
    and_macro(WhereReplay(SubSeq(whlog, 1, i)).text,
              [j \in 1..(Len(whlog) - i) |-> whlog[i + j].args[1]])

\* C24 as stated: a chain of and() calls with non-empty operands on a
\* Where with non-empty text t yields `(t) AND (o1) AND ... AND (ok)`, the
\* text of and!(t, o1, ..., ok).  The chain is taken whole: the call
\* before it is not an and() call.
C24_Original ==
    \A i \in 1..Len(whlog) :
        (AndChainFrom(i) /\ whlog[i].name # "and") =>
            Where_to_string(wh) = AndMacroFrom(i)

\* C24: a chain of and() calls with non-empty operands on a Where with
\* non-empty text t on which no and() succeeded before yields
\* `(t) AND (o1) AND ... AND (ok)`, the text of and!(t, o1, ..., ok).
C24_Amended ==
    \A i \in 1..Len(whlog) :
        (AndChainFrom(i) /\ ~WhereReplay(SubSeq(whlog, 1, i)).was_and) =>
            Where_to_string(wh) = AndMacroFrom(i)

\* new("a").eq("1").and("b").and("c")
C24_Witness ==
    /\ whlog = <<Call("new", <<<<"a">>>>), Call("eq", <<<<"1">>>>),
                 Call("and", <<<<"b">>>>), Call("and", <<<<"c">>>>)>>
    /\ wh.text = <<"(", "a", " ", "=", " ", "1", ")", " ", "A", "N", "D", " ",
                   "(", "b", ")", " ", "A", "N", "D", " ", "(", "c", ")">>

\* C25: new(seed) records NoWhereField when the seed is empty and nothing
\* otherwise; eq(v) and ne(v) record NoWhereValue with the current text
\* when v is empty and nothing otherwise; and(o) and or(o) record
\* NoWhereField when the current text is empty, else NoWhereValue with the
\* current text when o is empty, and nothing otherwise.
C25_WhereErrors ==
    /\ []((Len(whlog) = 1 /\ whlog[1].name = "new") =>
              wh.error = IF whlog[1].args[1] = <<>> THEN NoWhereField
                         ELSE NoError)
    /\ [][whlog' # whlog =>
              /\ ThisCall.name \in {"eq", "ne"} =>
                     wh'.error = IF ThisCall.args[1] = <<>>
                                 THEN NoWhereValue(wh.text)
                                 ELSE wh.error
              /\ ThisCall.name \in {"and", "or"} =>
                     wh'.error = IF wh.text = <<>> THEN NoWhereField
                                 ELSE IF ThisCall.args[1] = <<>>
                                      THEN NoWhereValue(wh.text)
                                      ELSE wh.error]_vars

\* Where::empty().and(""): the text and the operand are both empty, and
\* NoWhereField is recorded
C25_Witness ==
    /\ whlog = <<Call("empty", <<>>), Call("and", <<<<>>>>)>>
    /\ wh.error = NoWhereField

\* C30: was_and starts false, becomes true at the first successful and()
\* and is never reset, so that an and() after a first and() and other
\* changes of the text does not bracket the text again:
\* new(a).and(x).or(y).and(z) yields `(a) AND (x) OR y AND (z)`.
C30_WasAndMonotonic ==
    /\ [](Len(whlog) = 1 => ~wh.was_and)
    /\ [][whlog' # whlog =>
              wh'.was_and <=>
                  \/ wh.was_and
                  \/ ThisCall.name = "and" /\ ~Fails(wh, ThisCall)]_vars
    /\ [](\A x, y, z \in Operands \ {<<>>} :
              whlog = <<Call("new", <<<<"a">>>>), Call("and", <<x>>),
                        Call("or", <<y>>), Call("and", <<z>>)>> =>
                  wh.text = <<"(", "a", ")", " ", "A", "N", "D", " ", "(">> \o x
                            \o <<")", " ", "O", "R", " ">> \o y
                            \o <<" ", "A", "N", "D", " ", "(">> \o z \o <<")">>)

\* new("a").and("b").or("c").and("b")
C30_Witness ==
    /\ whlog = <<Call("new", <<<<"a">>>>), Call("and", <<<<"b">>>>),
                 Call("or", <<<<"c">>>>), Call("and", <<<<"b">>>>)>>
    /\ wh.was_and
    /\ wh.text = <<"(", "a", ")", " ", "A", "N", "D", " ", "(", "b", ")", " ",
                   "O", "R", " ", "c", " ", "A", "N", "D", " ", "(", "b", ")">>

(***************************************************************************)
(* The constraints of the joins of a SELECT.                               *)
(***************************************************************************)
InitJoin == Constructed({Call("select_from", <<<<"books">>>>)})

NextJoin ==
    \/ Left
    \/ Join
    \/ On
    \/ OnEq
    \/ Sql

SpecJoin == InitJoin /\ [][NextJoin]_vars

\* the mutator call the step makes on the builder
ThisMutator == log'[Len(log')]

\* what on(c) and on_eq(a, b) add to a join
Constraint(c) ==
    IF c.name = "on" THEN <<" ON ">> \o c.args[1]
    ELSE <<" ON ">> \o c.args[1] \o <<" = ">> \o c.args[2]

\* C26: on(c) and on_eq(a, b) append ` ON c` and ` ON a = b` to the join
\* added last and leave the earlier joins and the rest of the builder as
\* they were; with no join they leave the whole builder, and so what it
\* renders, as it was.
C26_OnLastJoin ==
    [][(log' # log /\ ThisMutator.name \in {"on", "on_eq"}) =>
           IF b.joins = <<>> THEN b' = b /\ sql(b') = sql(b)
           ELSE /\ Len(b'.joins) = Len(b.joins)
                /\ \A i \in 1..(Len(b.joins) - 1) : b'.joins[i] = b.joins[i]
                /\ b'.joins[Len(b.joins)] =
                       b.joins[Len(b.joins)] \o Constraint(ThisMutator)
                /\ [b' EXCEPT !.joins = b.joins] = b]_vars

\* join(shops), join(authors), on_eq(x, y) were called in this order and
\* the statement was rendered
C26_Witness ==
    /\ Len(log) = 4
    /\ log[4].name = "on_eq"
    /\ renderer = "sql"
    /\ out.text = <<"SELECT", " ", "*", " FROM ", "books", " ", "JOIN ", "shops",
                    " ", "JOIN ", "authors", " ON ", "x", " = ", "y", ";">>

\* C27: query(), subquery() and subquery_as() return no error; for a
\* builder with an empty table they return a SELECT body in which nothing
\* stands between FROM and the next part, while sql() returns NoTableName
\* for the same SELECT builder.
C27_QueryNeverFails ==
    /\ renderer \in {"query", "subquery", "subquery_as"} =>
           /\ out.tag = "Ok"
           /\ \E i \in 1..Len(out.text) :
                  /\ out.text[i] = " FROM "
                  /\ b.table = <<>> =>
                         \/ i = Len(out.text)
                         \/ out.text[i + 1] \in {" WHERE ", ")", ") AS "}
    /\ (renderer = "sql" /\ b.statement = "SelectFrom" /\ b.table = <<>>) =>
           out = Err("NoTableName")

\* subquery_as() was called on a SELECT builder with an empty table
C27_Witness ==
    /\ renderer = "subquery_as"
    /\ b.statement = "SelectFrom"
    /\ b.table = <<>>
    /\ out.tag = "Ok"

(***************************************************************************)
(* HAVING (checked under SpecSelect).                                      *)
(***************************************************************************)
\* what a rendered SELECT has between the HAVING keyword at index i and
\* the next clause
HavingPart(t, i) ==
    LET ends == {j \in i..Len(t) : t[j] \in AfterWhere}
    IN  SubSeq(t, i + 1, (CHOOSE j \in ends : \A k \in ends : j <= k) - 1)

\* C28: a SELECT renders without error; it has a HAVING part exactly when
\* having() was called and a group_by entry exists, and the part holds the
\* condition of the last having() call.
C28_Having ==
    renderer = "sql" =>
        LET hs == FirstArgs(CallsOf({"having"}))
            at == {i \in 1..Len(out.text) : out.text[i] = " HAVING "}
        IN  /\ out.tag = "Ok"
            /\ at # {} <=> (hs # <<>> /\ CallsOf({"group_by"}) # <<>>)
            /\ at # {} =>
                   /\ Cardinality(at) = 1
                   /\ HavingPart(out.text, Highest(at)) = hs[Len(hs)]

\* having() was called twice with different conditions on a SELECT with a
\* group_by entry, and the statement was rendered
C28_Witness ==
    /\ renderer = "sql"
    /\ out.tag = "Ok"
    /\ CallsOf({"group_by"}) # <<>>
    /\ Len(CallsOf({"having"})) = 2
    /\ CallsOf({"having"})[1] # CallsOf({"having"})[2]

\* C29: values in List mode hold at least one group, and for an INSERT
\* with a non-empty table sql() returns NoValues exactly when neither
\* values() nor select() was called.  (Checked under Spec.)
C29_ListNeverEmpty ==
    /\ b.values.tag = "List" => Len(b.values.list) >= 1
    /\ (/\ renderer = "sql"
        /\ b.statement = "InsertInto"
        /\ b.table # <<>>) =>
           (out = Err("NoValues") <=> CallsOf({"values", "select"}) = <<>>)

\* values(&[]) was the only call on an INSERT, and the statement was
\* rendered with the group `()`
C29_Witness ==
    /\ b.statement = "InsertInto"
    /\ log = <<Call("insert_into", <<<<"books">>>>), Call("values", <<>>)>>
    /\ b.values = ValuesList(<<<<"(", ")">>>>)
    /\ renderer = "sql"
    /\ out.tag = "Ok"

=============================================================================
